---- MODULE Spec2Model ----
(***************************************************************************)
(* A model of bex's environment provisioning engine:                       *)
(*   - the CLI entry point `init` and `_bootstrap` (src/bex/cli.py, and    *)
(*     the stand-alone bootstrap CLI in bootstrap/src/bex/bootstrap),      *)
(*   - `download_uv`, `_extract` (src/bex/uv.py),                          *)
(*   - `download_file`, `wait_process`, `_terminate_process`               *)
(*     (src/bex/utils.py),                                                 *)
(*   - `_create_isolated_environment` (src/bex/cli.py).                    *)
(*                                                                         *)
(* Spec      : sequential CLI runs over one project directory, interleaved *)
(*             with descriptor edits, removal of .venv, cancellation       *)
(*             signals and the supervised children's own behaviour.        *)
(* SpecCore  : Spec with a user who only edits the descriptor, and only    *)
(*             between two runs.                                           *)
(* SpecRace  : two independent runs inside download_uv on one cache.       *)
(* SpecWait  : wait_process called on its own, with or without a timeout.  *)
(***************************************************************************)
EXTENDS Integers, FiniteSets, Sequences, TLC

\* ---------------------------------------------------------------- bounds
\* Number of distinct descriptor contents the user switches between.
NumContents == 2
\* Number of chunks shutil.copyfileobj writes for the uv executable.
ExeChunks == 2
\* Largest number of chunks an archive download is delivered in.
DlChunks == 2
\* Largest number of lines a supervised child writes.
MaxLines == 2
\* Largest number of releases the release index lists.
MaxReleases == 2

\* ------------------------------------------------------------- constants
\* Exit status of a child ended by SIGTERM / SIGKILL (Popen reports -signum).
TermRc == -15
KillRc == -9
\* Outward statuses of the CLI.
ExitOk == 0
ExitFailure == 1
ExitCancelled == 3

\* What the callback is handed for "": no line of the child (lines are
\* numbered from 1).
BlankLine == 0

Contents == 1..NumContents
\* The descriptor file is absent or unreadable.
Missing == 0
\* Two independent invocations of the tool; sequential runs use Main.
Procs == {1, 2}
Main == 1
Steps == 1..3
Variants == {"bex", "bootstrap"}

\* Text of .envhash: absent file, empty text, or a hex digest.
Absent == "<absent>"
EmptyText == ""

VARIABLES
    \* ---- the project directory on disk
    desc,          \* bytes of the descriptor file (a content id) or Missing
    bexDir,        \* <directory>/.bex exists
    envhashFile,   \* text of .bex/.envhash, or Absent
    venv,          \* .bex/.venv: [exists, py, pkgs]
    reqIn,         \* .bex/requirements.in: content id whose text it holds, 0 if absent
    reqTxt,        \* .bex/requirements.txt: content id it was compiled from, 0 if absent
    uvBin,         \* cache/uv/uv-<version>: [exists, chunks, xbit]
    \* ---- one CLI run
    pc,            \* position of the control thread
    variant,       \* which CLI runs: "bex" (cli.py) or "bootstrap"
    cfg,           \* descriptor contents load_configuration parsed
    envHash,       \* env_hash computed by this run
    hashedDesc,    \* the bytes env_hash was computed from (Missing if unreadable)
    decision,      \* outcome of the hash check: none / skip / rebuild / readerr
    outcome,       \* Result of _bootstrap: none / Ok / Cancelled / PyVenvError / UvError / OtherError
    errMsg,        \* message carried by a BexError
    exitStatus,    \* status handed to ctx.exit, -1 while running
    prevRun,       \* what the previous completed run did
    cancelAt,      \* phase in which the cancellation signal fired
    \* ---- wait_process
    step,          \* build step in progress (0: none)
    kids,          \* the three children: [state, rc, stubborn, registered, termSent, stdout]
    hpc,           \* inside _terminate_process: none / wait
    wpTimeout,     \* the timeout argument: "none" or "finite"
    wpOut,         \* how wait_process ended: [kind, rc, cancelled]
    spawns,        \* children spawned by this run
    callback,      \* the callback argument: "debug" (logger.debug) or "record"
    sent,          \* lines the supervised child has written so far
    pipe,          \* lines written and not yet read from the pipe
    lines,         \* what a recording callback was handed, in order (0: "")
    \* ---- download_uv / download_file, per invocation
    upc,           \* position inside download_uv
    uvArg,         \* TRUE when a pinned version was passed
    index,         \* the list the release index holds, when the specification fixes it
    indexKnown,    \* FALSE: the release index may answer any list to a query
    version,       \* _version: NoVersion, PinnedVersion or the name of a release
    host,          \* the machine bex runs on, when the specification fixes it
    hostKnown,     \* FALSE: the platform probes may answer for any machine
    release,       \* (filename, target) of _get_uv_release_info, until the URL is built
    uvRes,         \* result of download_uv: [kind, msg]
    dlRes,         \* result of download_file: none / Path / Cancelled / HttpError / OsError
    tmp,           \* the NamedTemporaryFile of this call exists
    dlLeft,        \* chunks the HTTP response still holds
    hdr,           \* the Content-Length header of the response: NoHeader or the size
    dlDone,        \* chunks written to the temp file (response.num_bytes_downloaded)
    progress,      \* the calls of report_hook so far: <<completed, total>>
    late,          \* chunks written since the token was cancelled
    \* ---- the hook executor (executor.py)
    hooks,         \* ids of the hooks the loaded plugins registered
    envHooks,      \* env.hooks: the hooks to run, each [id, if_]
    hookAt,        \* position in env.hooks of the hook in _execute_hook (0: none)
    hookPc,        \* position inside execute / _execute_hook
    ctxCancelled,  \* the token of ctx is cancelled
    atEntry,       \* ctxCancelled when the current _execute_hook call began
    processed,     \* per hook processed: [id, if_, res, entry, called]
    wrote,         \* chunks of the executable this invocation has written
    netCalls,      \* network requests opened by this invocation
    cancelled      \* the invocation's cancellation token is cancelled

diskVars == <<desc, bexDir, envhashFile, venv, reqIn, reqTxt, uvBin>>
cliVars == <<pc, variant, cfg, envHash, hashedDesc, decision, outcome, errMsg,
             exitStatus, prevRun, cancelAt>>
wpVars == <<step, kids, hpc, wpTimeout, wpOut, spawns>>
uvVars == <<upc, uvArg, index, indexKnown, version, host, hostKnown, release,
           uvRes, dlRes, tmp, dlLeft, wrote, netCalls>>
ioVars == <<callback, sent, pipe, lines>>
dlVars == <<hdr, dlDone, progress, late>>
hookVars == <<hooks, envHooks, hookAt, hookPc, ctxCancelled, atEntry, processed>>
vars == <<diskVars, cliVars, wpVars, uvVars, ioVars, dlVars, hookVars, cancelled>>

\* ------------------------------------------------------------- helpers
\* hashlib.sha1(bytes).hexdigest(): a digest text, different from the bytes
\* and from the empty text; distinct contents of the bounded set get
\* distinct digests.
Sha1Hex(c) == "sha1-" \o ToString(c)

\* _version before it is resolved, and the version a descriptor pins (a
\* release is named by its position in the answer, from 1).
NoVersion == 0
PinnedVersion == -1

\* An entry of the release index: entry["draft"], entry["prerelease"],
\* entry["published_at"] (one of two instants); the answer of the index is
\* a list of at most MaxReleases entries.
Stamps == {1, 2}
Entries == [draft : BOOLEAN, prerelease : BOOLEAN, published_at : Stamps]
Indexes == UNION {[1..n -> Entries] : n \in 0..MaxReleases}

\* What `httpx.get(_UV_RELEASES_URL).json()` may give: the list the index
\* holds, or any list where the specification leaves the index open.
Answers == IF indexKnown THEN {index} ELSE Indexes

\* The entries _get_uv_latest_version keeps.
Stable(idx) == {i \in 1..Len(idx) : ~idx[i].draft /\ ~idx[i].prerelease}

\* _get_uv_latest_version: the first entry of the kept ones sorted by
\* published_at, newest first (sorted is stable, so among equal instants
\* the one listed first), or nothing.
GetUvLatestVersionAny(idx) == IF idx = <<>> THEN NoVersion ELSE 1
GetUvLatestVersion(idx) ==
    IF Stable(idx) = {}
    THEN NoVersion
    ELSE CHOOSE i \in Stable(idx) :
            \A j \in Stable(idx) :
                \/ idx[j].published_at < idx[i].published_at
                \/ idx[j].published_at = idx[i].published_at /\ i <= j

\* The uv version a descriptor pins (the `uv` key), if any: odd content ids
\* pin a version, even ones ask for the latest release.
PinsUv(c) == c % 2 = 1

\* What the platform probes of _get_uv_release_info give on a machine:
\* platform.system(), platform.machine(), sysconfig.get_config_var("CC")
\* (NoCC: None) and the library name of platform.libc_ver() ("" when the
\* probe does not recognise the C library).
NoCC == "<none>"
Systems == {"Windows", "Linux", "Darwin", "FreeBSD"}
Machines == {"AMD64", "x86_64", "arm64", "aarch64", "i686"}
Compilers == {NoCC, "cl.exe", "gcc"}
Libcs == {"glibc", "libc", "musl", ""}
Hosts == [system : Systems, machine : Machines, cc : Compilers, libc : Libcs]
AnyHost == [system |-> "Linux", machine |-> "x86_64", cc |-> NoCC, libc |-> "glibc"]
Probes == IF hostKnown THEN {host} ELSE Hosts

\* The response of the download: no Content-Length header, and the total
\* download_file reports then.
NoHeader == 0
Indeterminate == -1

\* `int(response.headers["Content-Length"]) if "Content-Length" in
\* response.headers else -1`
ContentLenZero(h) == h
ContentLen(h) == IF h = NoHeader THEN Indeterminate ELSE h

\* option.nothing() of _get_uv_release_info, and `release` once used.
Nothing == [filename |-> "", target |-> ""]

\* `platform.system().lower()`
Lower(s) ==
    CASE s = "Windows" -> "windows"
      [] s = "Linux" -> "linux"
      [] s = "Darwin" -> "darwin"
      [] s = "FreeBSD" -> "freebsd"
      [] OTHER -> s

\* The defaultdict of architectures: "" stands for its default None.
Arch(machine) ==
    CASE machine \in {"AMD64", "x86_64"} -> "x86_64"
      [] machine \in {"arm64", "aarch64"} -> "aarch64"
      [] OTHER -> ""

\* The defaultdict of vendors.
Vendor(system) ==
    CASE system = "windows" -> "pc"
      [] system = "darwin" -> "apple"
      [] OTHER -> "unknown"

\* `abi`: from the compiler on Windows, from the C library on Linux, None
\* ("") elsewhere.
AbiGnuOnly(system, cc, libc) == IF system \in {"windows", "linux"} THEN "gnu" ELSE ""
Abi(system, cc, libc) ==
    CASE system = "windows" -> IF cc \in {NoCC, "cl.exe"} THEN "msvc" ELSE "gnu"
      [] system = "linux" -> IF libc \in {"glibc", "libc"} THEN "gnu" ELSE "musl"
      [] OTHER -> ""

\* _get_uv_release_info: (archive name, target), or nothing.
GetUvReleaseInfo(h) ==
    LET system == Lower(h.system)
        arch == Arch(h.machine)
        abi == Abi(system, h.cc, h.libc)
        target == IF abi # ""
                  THEN "uv-" \o arch \o "-" \o Vendor(system) \o "-" \o system \o "-" \o abi
                  ELSE "uv-" \o arch \o "-" \o Vendor(system) \o "-" \o system
    IN  IF system \notin {"windows", "linux", "darwin"} \/ arch = ""
        THEN Nothing
        ELSE IF system = "windows"
             THEN [filename |-> target \o ".zip", target |-> target]
             ELSE [filename |-> target \o ".tar.gz", target |-> target]

NoVenv == [exists |-> FALSE, py |-> 0, pkgs |-> 0]
NoBin == [exists |-> FALSE, chunks |-> {}, xbit |-> FALSE]
FullBin == [exists |-> TRUE, chunks |-> 1..ExeChunks, xbit |-> TRUE]
NoKid == [state |-> "none", rc |-> 0, stubborn |-> FALSE,
          registered |-> FALSE, termSent |-> FALSE, stdout |-> "none"]
NoOut == [kind |-> "none", rc |-> 0, cancelled |-> FALSE]
NoRes == [kind |-> "none", msg |-> ""]
NoPrev == [ok |-> FALSE, hashed |-> Missing, persisted |-> FALSE]

\* The environment is the one a complete build for contents d produces.
Built(d) == venv.exists /\ venv.py = d /\ venv.pkgs = d

\* Popen can execute the cached binary.
Runnable(b) == b.exists /\ b.xbit /\ b.chunks = 1..ExeChunks

\* `env_hash_file.exists() and env_hash == env_hash_file.read_text()`
HashMatchedAlways(file, h) == file # Absent
HashMatchedNever(file, h) == file # Absent /\ h = Absent
HashMatched(file, h) == file # Absent /\ h = file

\* The `match` of `init`: the status given to ctx.exit for each outcome.
ExitStatusOf(o) ==
    CASE o = "Ok" -> ExitOk
      [] o = "Cancelled" -> ExitCancelled
      [] OTHER -> ExitFailure

\* The message of the BexPyVenvError raised after each step.
StepMsgSame(k) == "Failed to create python virtual environment"
StepMsg(k) ==
    CASE k = 1 -> "Failed to create python virtual environment"
      [] k = 2 -> "Failed to compile pip requirements"
      [] OTHER -> "Failed to sync pip requirements"

\* `if <step>_rc != 0: raise BexPyVenvError(msg)`
StepFailedNever(rc) == FALSE
StepFailed(rc) == rc # 0

\* What a child leaves on disk when it exits: step 1 (uv venv), step 2
\* (uv pip compile), step 3 (uv pip sync).  dmg: a failing child left the
\* environment half-changed.
VenvAfter(k, rc, dmg) ==
    CASE k = 1 /\ rc = 0 ->
            [exists |-> TRUE, py |-> cfg,
             pkgs |-> IF venv.exists /\ venv.py = cfg THEN venv.pkgs ELSE 0]
      [] k = 1 /\ rc # 0 ->
            IF dmg THEN [exists |-> TRUE, py |-> 0, pkgs |-> 0] ELSE venv
      [] k = 3 /\ rc = 0 -> [venv EXCEPT !.pkgs = cfg]
      [] k = 3 /\ rc # 0 ->
            IF dmg /\ venv.exists THEN [venv EXCEPT !.pkgs = 0] ELSE venv
      [] OTHER -> venv

\* `requirements_in.write_bytes(requirements.encode("utf-8"))`: the file
\* is created or replaced as a whole and holds the text of the loaded
\* descriptor (a file is named by the contents it was written from).
WriteBytesKeep(old, text) == IF old # 0 THEN old ELSE text
WriteBytes(old, text) == text

\* requirements.txt when a child exits: `uv pip compile ... -o
\* requirements.txt` (step 2) writes it from requirements.in when it
\* succeeds; no other child touches it.
ReqTxtAfterRollback(k, rc) == IF k = 2 /\ rc = 0 THEN reqIn ELSE 0
ReqTxtAfter(k, rc) == IF k = 2 /\ rc = 0 THEN reqIn ELSE reqTxt

\* Values of the run-local variables between runs.
RunReset ==
    /\ pc' = "idle"
    /\ variant' = "bex"
    /\ cfg' = Missing
    /\ envHash' = EmptyText
    /\ hashedDesc' = Missing
    /\ decision' = "none"
    /\ outcome' = "none"
    /\ errMsg' = ""
    /\ exitStatus' = -1
    /\ cancelAt' = "none"
    /\ step' = 0
    /\ kids' = [k \in Steps |-> NoKid]
    /\ hpc' = "none"
    /\ wpTimeout' = "none"
    /\ wpOut' = NoOut
    /\ spawns' = 0
    /\ callback' = "debug"
    /\ sent' = 0
    /\ pipe' = 0
    /\ lines' = <<>>
    /\ upc' = [upc EXCEPT ![Main] = "idle"]
    /\ uvArg' = [uvArg EXCEPT ![Main] = FALSE]
    /\ index' = index
    /\ indexKnown' = indexKnown
    /\ version' = [version EXCEPT ![Main] = NoVersion]
    /\ host' = host
    /\ hostKnown' = hostKnown
    /\ release' = [release EXCEPT ![Main] = Nothing]
    /\ uvRes' = [uvRes EXCEPT ![Main] = NoRes]
    /\ dlRes' = [dlRes EXCEPT ![Main] = "none"]
    /\ tmp' = [tmp EXCEPT ![Main] = FALSE]
    /\ dlLeft' = [dlLeft EXCEPT ![Main] = 0]
    /\ hdr' = [hdr EXCEPT ![Main] = NoHeader]
    /\ dlDone' = [dlDone EXCEPT ![Main] = 0]
    /\ progress' = [progress EXCEPT ![Main] = <<>>]
    /\ late' = [late EXCEPT ![Main] = 0]
    /\ wrote' = [wrote EXCEPT ![Main] = 0]
    /\ netCalls' = [netCalls EXCEPT ![Main] = 0]
    /\ cancelled' = [cancelled EXCEPT ![Main] = FALSE]

\* ---------------------------------------------------------------- Init
\* The hook executor has not been entered.
NoExecutor ==
    /\ hooks = {}
    /\ envHooks = <<>>
    /\ hookAt = 0
    /\ hookPc = "idle"
    /\ ctxCancelled = FALSE
    /\ atEntry = FALSE
    /\ processed = <<>>

InitRun ==
    /\ pc = "idle"
    /\ variant = "bex"
    /\ cfg = Missing
    /\ envHash = EmptyText
    /\ hashedDesc = Missing
    /\ decision = "none"
    /\ outcome = "none"
    /\ errMsg = ""
    /\ exitStatus = -1
    /\ prevRun = NoPrev
    /\ cancelAt = "none"
    /\ step = 0
    /\ kids = [k \in Steps |-> NoKid]
    /\ hpc = "none"
    /\ wpTimeout = "none"
    /\ wpOut = NoOut
    /\ spawns = 0
    /\ callback = "debug"
    /\ sent = 0
    /\ pipe = 0
    /\ lines = <<>>
    /\ upc = [p \in Procs |-> "idle"]
    /\ uvArg = [p \in Procs |-> FALSE]
    /\ index = <<>>
    /\ indexKnown = FALSE
    /\ version = [p \in Procs |-> NoVersion]
    /\ host = AnyHost
    /\ hostKnown = FALSE
    /\ release = [p \in Procs |-> Nothing]
    /\ uvRes = [p \in Procs |-> NoRes]
    /\ dlRes = [p \in Procs |-> "none"]
    /\ tmp = [p \in Procs |-> FALSE]
    /\ dlLeft = [p \in Procs |-> 0]
    /\ hdr = [p \in Procs |-> NoHeader]
    /\ dlDone = [p \in Procs |-> 0]
    /\ progress = [p \in Procs |-> <<>>]
    /\ late = [p \in Procs |-> 0]
    /\ wrote = [p \in Procs |-> 0]
    /\ netCalls = [p \in Procs |-> 0]
    /\ cancelled = [p \in Procs |-> FALSE]

\* A fresh project: a descriptor, nothing built, nothing cached.
Init ==
    /\ desc \in Contents
    /\ bexDir = FALSE
    /\ envhashFile = Absent
    /\ venv = NoVenv
    /\ reqIn = 0
    /\ reqTxt = 0
    /\ uvBin = NoBin
    /\ InitRun
    /\ NoExecutor

\* ------------------------------------------------- the user, between steps
\* The user saves the descriptor with other contents, or removes it.  A run
\* reads the descriptor in load_configuration and once more for env_hash and
\* never again, so an edit later in the run is an edit after the run.
EditDescriptor ==
    /\ pc \in {"idle", "mkdir", "hash"}
    /\ \E d \in Contents \cup {Missing} : d # desc /\ desc' = d
    /\ UNCHANGED <<bexDir, envhashFile, venv, reqIn, reqTxt, uvBin>>
    /\ UNCHANGED <<cliVars, wpVars, uvVars, cancelled>>
    /\ UNCHANGED ioVars
    /\ UNCHANGED dlVars
    /\ UNCHANGED hookVars

\* The user removes .bex/.venv between two runs.
DeleteVenv ==
    /\ pc = "idle"
    /\ venv.exists
    /\ venv' = NoVenv
    /\ UNCHANGED <<desc, bexDir, envhashFile, reqIn, reqTxt, uvBin>>
    /\ UNCHANGED <<cliVars, wpVars, uvVars, cancelled>>
    /\ UNCHANGED ioVars
    /\ UNCHANGED dlVars
    /\ UNCHANGED hookVars

\* --------------------------------------------------------- init, _bootstrap
\* The end of a _bootstrap call: record the Result and go on to `match`.
Finish(o, m) ==
    /\ outcome' = o
    /\ errMsg' = m
    /\ pc' = "exit"

\* `bex init` / the bootstrap CLI starts: a fresh token, and
\* load_configuration reads and parses the descriptor.
StartRun ==
    /\ pc = "idle"
    /\ desc # Missing
    /\ \E v \in Variants : variant' = v
    /\ cfg' = desc
    /\ pc' = "mkdir"
    /\ UNCHANGED <<envHash, hashedDesc, decision, outcome, errMsg, exitStatus,
                   prevRun, cancelAt>>
    /\ UNCHANGED <<diskVars, wpVars, uvVars, cancelled>>
    /\ UNCHANGED ioVars
    /\ UNCHANGED dlVars
    /\ UNCHANGED hookVars

\* `path.mkdir(exist_ok=True)`: only the creation of a missing directory fails.
BootstrapMkdir ==
    /\ pc = "mkdir"
    /\ \/ /\ bexDir' = TRUE
          /\ pc' = "hash"
          /\ UNCHANGED <<outcome, errMsg>>
       \/ /\ ~bexDir
          /\ bexDir' = bexDir
          /\ Finish("OtherError", "")
    /\ UNCHANGED <<desc, envhashFile, venv, reqIn, reqTxt, uvBin>>
    /\ UNCHANGED <<variant, cfg, envHash, hashedDesc, decision, exitStatus,
                   prevRun, cancelAt>>
    /\ UNCHANGED <<wpVars, uvVars, cancelled>>
    /\ UNCHANGED ioVars
    /\ UNCHANGED dlVars
    /\ UNCHANGED hookVars

\* `hashlib.sha1(config["filename"].read_bytes()).hexdigest()`; cli.py falls
\* back to "" when the read fails, the bootstrap CLI lets the error out.
BootstrapHash ==
    /\ pc = "hash"
    /\ hashedDesc' = desc
    /\ \/ /\ desc # Missing
          /\ envHash' = Sha1Hex(desc)
          /\ pc' = "check"
          /\ UNCHANGED <<outcome, errMsg>>
       \/ /\ desc = Missing
          /\ variant = "bex"
          /\ envHash' = EmptyText
          /\ pc' = "check"
          /\ UNCHANGED <<outcome, errMsg>>
       \/ /\ desc = Missing
          /\ variant = "bootstrap"
          /\ envHash' = envHash
          /\ Finish("OtherError", "")
    /\ UNCHANGED <<variant, cfg, decision, exitStatus, prevRun, cancelAt>>
    /\ UNCHANGED <<diskVars, wpVars, uvVars, cancelled>>
    /\ UNCHANGED ioVars
    /\ UNCHANGED dlVars
    /\ UNCHANGED hookVars

\* "Check if env has changed": skip onto the existing environment, fail on
\* an unreadable .envhash, or go on to the rebuild.
BootstrapCheck ==
    /\ pc = "check"
    /\ \/ /\ HashMatched(envhashFile, envHash)
          /\ decision' = "skip"
          /\ Finish("Ok", "")
       \/ /\ envhashFile # Absent
          /\ decision' = "readerr"
          /\ Finish("OtherError", "")
       \/ /\ ~HashMatched(envhashFile, envHash)
          /\ decision' = "rebuild"
          /\ pc' = "acquire"
          /\ UNCHANGED <<outcome, errMsg>>
    /\ UNCHANGED <<variant, cfg, envHash, hashedDesc, exitStatus, prevRun, cancelAt>>
    /\ UNCHANGED <<diskVars, wpVars, uvVars, cancelled>>
    /\ UNCHANGED ioVars
    /\ UNCHANGED dlVars
    /\ UNCHANGED hookVars

\* The call download_uv(console, cancel_token, cache, version=config["uv_version"]).
BootstrapAcquire ==
    /\ pc = "acquire"
    /\ pc' = "acquiring"
    /\ upc' = [upc EXCEPT ![Main] = "resolve"]
    /\ uvArg' = [uvArg EXCEPT ![Main] = PinsUv(cfg)]
    /\ UNCHANGED <<variant, cfg, envHash, hashedDesc, decision, outcome, errMsg,
                   exitStatus, prevRun, cancelAt>>
    /\ UNCHANGED <<index, indexKnown, version, host, hostKnown, release, uvRes, dlRes, tmp, dlLeft, wrote, netCalls>>
    /\ UNCHANGED <<diskVars, wpVars, cancelled>>
    /\ UNCHANGED ioVars
    /\ UNCHANGED dlVars
    /\ UNCHANGED hookVars

\* download_uv has returned or raised: go on to the build, or fail.
BootstrapAcquired ==
    /\ pc = "acquiring"
    /\ upc[Main] = "done"
    /\ \/ /\ uvRes[Main].kind = "Path"
          /\ pc' = "wp_popen"
          /\ step' = 1
          /\ UNCHANGED <<outcome, errMsg>>
       \/ /\ uvRes[Main].kind = "UvError"
          /\ step' = step
          /\ Finish("UvError", uvRes[Main].msg)
       \/ /\ uvRes[Main].kind = "RawError"
          /\ step' = step
          /\ Finish("OtherError", "")
    /\ UNCHANGED <<variant, cfg, envHash, hashedDesc, decision, exitStatus,
                   prevRun, cancelAt>>
    /\ UNCHANGED <<kids, hpc, wpTimeout, wpOut, spawns>>
    /\ UNCHANGED <<diskVars, uvVars, cancelled>>
    /\ UNCHANGED ioVars
    /\ UNCHANGED dlVars
    /\ UNCHANGED hookVars

\* `env_hash_file.write_text(env_hash)` after a successful build.  A failed
\* write leaves the file as it was or truncated; cli.py swallows the
\* failure, the bootstrap CLI lets it out.
BootstrapPersist ==
    /\ pc = "persist"
    /\ \/ /\ envhashFile' = envHash
          /\ Finish("Ok", "")
       \/ /\ envhashFile' \in {envhashFile, EmptyText}
          /\ IF variant = "bex" THEN Finish("Ok", "") ELSE Finish("OtherError", "")
    /\ UNCHANGED <<desc, bexDir, venv, reqIn, reqTxt, uvBin>>
    /\ UNCHANGED <<variant, cfg, envHash, hashedDesc, decision, exitStatus,
                   prevRun, cancelAt>>
    /\ UNCHANGED <<wpVars, uvVars, cancelled>>
    /\ UNCHANGED ioVars
    /\ UNCHANGED dlVars
    /\ UNCHANGED hookVars

\* The `match bootstrap_result` of init: print and ctx.exit(status).
Exit ==
    /\ pc = "exit"
    /\ hpc = "none"
    /\ exitStatus' = ExitStatusOf(outcome)
    /\ pc' = "done"
    /\ UNCHANGED <<variant, cfg, envHash, hashedDesc, decision, outcome, errMsg,
                   prevRun, cancelAt>>
    /\ UNCHANGED <<diskVars, wpVars, uvVars, cancelled>>
    /\ UNCHANGED ioVars
    /\ UNCHANGED dlVars
    /\ UNCHANGED hookVars

\* The process is gone; the next run starts from the disk it left.
EndRun ==
    /\ pc = "done"
    /\ prevRun' = IF outcome = "Ok"
                  THEN [ok |-> TRUE, hashed |-> hashedDesc,
                        persisted |-> envhashFile = envHash]
                  ELSE NoPrev
    /\ RunReset
    /\ UNCHANGED diskVars
    /\ UNCHANGED hookVars

\* -------------------------------------------------- download_uv (uv.py)
UvRaiseRetry(p, kind, m) ==
    /\ uvRes' = [uvRes EXCEPT ![p] = [kind |-> kind, msg |-> m]]
    /\ upc' = [upc EXCEPT ![p] = IF kind = "Path" THEN "done" ELSE "resolve"]
UvRaise(p, kind, m) ==
    /\ uvRes' = [uvRes EXCEPT ![p] = [kind |-> kind, msg |-> m]]
    /\ upc' = [upc EXCEPT ![p] = "done"]

\* `_version = ...`: a pinned version is taken as given, without a query;
\* otherwise _get_uv_latest_version asks the release index: httpx.get or
\* the reading of the answer raises, or the answer lists no release that is
\* neither draft nor prerelease (BexUvError), or the newest such release
\* names the version.
UvResolve(p) ==
    /\ upc[p] = "resolve"
    /\ \/ /\ uvArg[p]
          /\ version' = [version EXCEPT ![p] = PinnedVersion]
          /\ upc' = [upc EXCEPT ![p] = "exists"]
          /\ UNCHANGED <<uvRes, netCalls>>
       \/ /\ ~uvArg[p]
          /\ netCalls' = [netCalls EXCEPT ![p] = @ + 1]
          /\ \/ \E idx \in Answers :
                  IF GetUvLatestVersion(idx) = NoVersion
                  THEN /\ UvRaise(p, "UvError", "Invalid UV version")
                       /\ UNCHANGED version
                  ELSE /\ version' = [version EXCEPT ![p] = GetUvLatestVersion(idx)]
                       /\ upc' = [upc EXCEPT ![p] = "exists"]
                       /\ UNCHANGED uvRes
             \/ /\ UvRaise(p, "RawError", "")
                /\ UNCHANGED version
    /\ UNCHANGED <<index, indexKnown, host, hostKnown, release>>
    /\ UNCHANGED <<uvArg, dlRes, tmp, dlLeft, wrote>>
    /\ UNCHANGED <<diskVars, cliVars, wpVars, cancelled>>
    /\ UNCHANGED ioVars
    /\ UNCHANGED dlVars
    /\ UNCHANGED hookVars

UvExistsVerified(p) ==
    /\ upc[p] = "exists"
    /\ IF Runnable(uvBin)
       THEN UvRaise(p, "Path", "")
       ELSE /\ upc' = [upc EXCEPT ![p] = "info"]
            /\ UNCHANGED uvRes
    /\ version' = [version EXCEPT ![p] = NoVersion]
    /\ UNCHANGED <<index, indexKnown, host, hostKnown, release>>
    /\ UNCHANGED <<uvArg, dlRes, tmp, dlLeft, wrote, netCalls>>
    /\ UNCHANGED <<diskVars, cliVars, wpVars, cancelled>>
    /\ UNCHANGED ioVars
    /\ UNCHANGED dlVars
    /\ UNCHANGED hookVars

\* `uv_bin = directory / f"uv-{_version}{exe}"; if uv_bin.exists(): return
\* uv_bin`.  From here on the version lives in the name of uv_bin only.
UvExists(p) ==
    /\ upc[p] = "exists"
    /\ IF uvBin.exists
       THEN UvRaise(p, "Path", "")
       ELSE /\ upc' = [upc EXCEPT ![p] = "info"]
            /\ UNCHANGED uvRes
    /\ version' = [version EXCEPT ![p] = NoVersion]
    /\ UNCHANGED <<index, indexKnown, host, hostKnown, release>>
    /\ UNCHANGED <<uvArg, dlRes, tmp, dlLeft, wrote, netCalls>>
    /\ UNCHANGED <<diskVars, cliVars, wpVars, cancelled>>
    /\ UNCHANGED ioVars
    /\ UNCHANGED dlVars
    /\ UNCHANGED hookVars

\* `_get_uv_release_info()`: nothing for a host it does not know.
UvReleaseInfo(p) ==
    /\ upc[p] = "info"
    /\ \E h \in Probes :
          /\ release' = [release EXCEPT ![p] = GetUvReleaseInfo(h)]
          /\ IF GetUvReleaseInfo(h) = Nothing
             THEN UvRaise(p, "UvError", "Could not find release info for UV")
             ELSE /\ upc' = [upc EXCEPT ![p] = "dl_open"]
                  /\ UNCHANGED uvRes
    /\ UNCHANGED <<index, indexKnown, version, host, hostKnown, uvArg, dlRes, tmp, dlLeft, wrote, netCalls>>
    /\ UNCHANGED <<diskVars, cliVars, wpVars, cancelled>>
    /\ UNCHANGED ioVars
    /\ UNCHANGED dlVars
    /\ UNCHANGED hookVars

\* download_file: the URL is built from the archive name, the temp file is
\* created and the GET request opened; the response comes with or without
\* a Content-Length header.  A request that fails leaves the with-block
\* with the temp file in place; download_uv turns every error of
\* download_file into a BexUvError.
DownloadFileOpen(p) ==
    /\ upc[p] = "dl_open"
    /\ tmp' = [tmp EXCEPT ![p] = TRUE]
    /\ netCalls' = [netCalls EXCEPT ![p] = @ + 1]
    /\ \/ /\ \E n \in 1..DlChunks, h \in BOOLEAN :
                /\ dlLeft' = [dlLeft EXCEPT ![p] = n]
                /\ hdr' = [hdr EXCEPT ![p] = IF h THEN n ELSE NoHeader]
          /\ dlDone' = [dlDone EXCEPT ![p] = 0]
          /\ progress' = [progress EXCEPT ![p] = <<>>]
          /\ late' = [late EXCEPT ![p] = 0]
          /\ upc' = [upc EXCEPT ![p] = "dl_loop"]
          /\ UNCHANGED <<uvRes, dlRes>>
       \/ /\ dlRes' = [dlRes EXCEPT ![p] = "HttpError"]
          /\ UvRaise(p, "UvError", "Failed to download uv")
          /\ UNCHANGED <<dlLeft, dlVars>>
    /\ release' = [release EXCEPT ![p] = Nothing]
    /\ UNCHANGED <<index, indexKnown, version, host, hostKnown, uvArg, wrote>>
    /\ UNCHANGED <<diskVars, cliVars, wpVars, cancelled>>
    /\ UNCHANGED ioVars
    /\ UNCHANGED hookVars

\* `while token.is_cancelled() is False:`: the check made before each
\* chunk is requested.
DownloadFileCheck(p) ==
    /\ upc[p] = "dl_loop"
    /\ upc' = [upc EXCEPT ![p] = IF cancelled[p] THEN "dl_end" ELSE "dl_chunk"]
    /\ UNCHANGED <<index, indexKnown, version, host, hostKnown, release, uvArg,
                   uvRes, dlRes, tmp, dlLeft, wrote, netCalls>>
    /\ UNCHANGED <<diskVars, cliVars, wpVars, cancelled>>
    /\ UNCHANGED ioVars
    /\ UNCHANGED dlVars
    /\ UNCHANGED hookVars

\* `dest.write(next(chunk_iter))` and `report_hook(
\* response.num_bytes_downloaded, _content_len)`: the chunk asked for
\* arrives and is written, then reported; or the read fails; or the
\* response is exhausted (StopIteration, suppressed).
DownloadFileChunk(p) ==
    /\ upc[p] = "dl_chunk"
    /\ \/ /\ dlLeft[p] > 0
          /\ dlLeft' = [dlLeft EXCEPT ![p] = @ - 1]
          /\ dlDone' = [dlDone EXCEPT ![p] = @ + 1]
          /\ progress' = [progress EXCEPT ![p] =
                            Append(@, <<dlDone[p] + 1, ContentLen(hdr[p])>>)]
          /\ late' = [late EXCEPT ![p] = IF cancelled[p] THEN @ + 1 ELSE @]
          /\ upc' = [upc EXCEPT ![p] = "dl_loop"]
          /\ UNCHANGED <<uvRes, dlRes, hdr>>
       \/ /\ dlLeft[p] > 0
          /\ dlRes' = [dlRes EXCEPT ![p] = "HttpError"]
          /\ UvRaise(p, "UvError", "Failed to download uv")
          /\ UNCHANGED <<dlLeft, dlVars>>
       \/ /\ dlLeft[p] = 0
          /\ upc' = [upc EXCEPT ![p] = "dl_end"]
          /\ UNCHANGED <<uvRes, dlRes, dlLeft, dlVars>>
    /\ UNCHANGED <<index, indexKnown, version, host, hostKnown, release, uvArg, tmp, wrote, netCalls>>
    /\ UNCHANGED <<diskVars, cliVars, wpVars, cancelled>>
    /\ UNCHANGED ioVars
    /\ UNCHANGED hookVars

\* `if is_token_cancelled(token) and _path.exists(): unlink; raise`, else the
\* path is returned and download_uv goes on to _extract.  The unlink runs
\* inside the with-block, on the temp file that is still open: where an
\* open file cannot be removed (Windows) it raises and the file stays.
\* The response and the counters of the call end with it.
DownloadFileEnd(p) ==
    /\ upc[p] = "dl_end"
    /\ IF cancelled[p] /\ tmp[p]
       THEN /\ \/ /\ tmp' = [tmp EXCEPT ![p] = FALSE]
                  /\ dlRes' = [dlRes EXCEPT ![p] = "Cancelled"]
               \/ /\ tmp' = tmp
                  /\ dlRes' = [dlRes EXCEPT ![p] = "OsError"]
            /\ UvRaise(p, "UvError", "Failed to download uv")
       ELSE /\ dlRes' = [dlRes EXCEPT ![p] = "Path"]
            /\ upc' = [upc EXCEPT ![p] = "extract"]
            /\ UNCHANGED <<tmp, uvRes>>
    /\ UNCHANGED <<index, indexKnown, version, host, hostKnown, release, uvArg, dlLeft, wrote, netCalls>>
    /\ UNCHANGED <<diskVars, cliVars, wpVars, cancelled>>
    /\ UNCHANGED ioVars
    /\ hdr' = [hdr EXCEPT ![p] = NoHeader]
    /\ dlDone' = [dlDone EXCEPT ![p] = 0]
    /\ progress' = [progress EXCEPT ![p] = <<>>]
    /\ late' = [late EXCEPT ![p] = 0]
    /\ UNCHANGED hookVars

\* `result.try_(_extract, ...)`, `result.safe(chmod)` and `result.map_err`:
\* whatever _extract or the chmod raises is kept in _result as the
\* BexUvError, and download_uv goes on to the unlink of the temp file.
ExtractRaiseNoCleanup(p) ==
    UvRaise(p, "UvError", "Failed to extract uv from archive")
ExtractRaise(p) ==
    /\ uvRes' = [uvRes EXCEPT ![p] =
                   [kind |-> "UvError", msg |-> "Failed to extract uv from archive"]]
    /\ upc' = [upc EXCEPT ![p] = "cleanup"]

\* _extract: the archive and its member are opened (a bad archive or a
\* missing member raises before the destination is touched), then
\* `open(uv_bin, "wb")` creates the destination or truncates it, keeping
\* the mode an existing file has.
ExtractOpen(p) ==
    /\ upc[p] = "extract"
    /\ \/ /\ uvBin' = [exists |-> TRUE, chunks |-> {}, xbit |-> uvBin.xbit]
          /\ wrote' = [wrote EXCEPT ![p] = 0]
          /\ upc' = [upc EXCEPT ![p] = "copy"]
          /\ UNCHANGED uvRes
       \/ /\ ExtractRaise(p)
          /\ UNCHANGED <<uvBin, wrote>>
    /\ UNCHANGED <<index, indexKnown, version, host, hostKnown, release, uvArg, dlRes, tmp, dlLeft, netCalls>>
    /\ UNCHANGED <<desc, bexDir, envhashFile, venv, reqIn, reqTxt>>
    /\ UNCHANGED <<cliVars, wpVars, cancelled>>
    /\ UNCHANGED ioVars
    /\ UNCHANGED dlVars
    /\ UNCHANGED hookVars

\* `shutil.copyfileobj(fsrc, fdst)`: the next chunk is written at this
\* writer's own offset, or the copy fails and leaves what was written.
ExtractCopy(p) ==
    /\ upc[p] = "copy"
    /\ wrote[p] < ExeChunks
    /\ \/ /\ uvBin' = [uvBin EXCEPT !.chunks = @ \cup {wrote[p] + 1}]
          /\ wrote' = [wrote EXCEPT ![p] = @ + 1]
          /\ upc' = [upc EXCEPT ![p] = IF wrote[p] + 1 = ExeChunks THEN "chmod" ELSE "copy"]
          /\ UNCHANGED uvRes
       \/ /\ ExtractRaise(p)
          /\ UNCHANGED <<uvBin, wrote>>
    /\ UNCHANGED <<index, indexKnown, version, host, hostKnown, release, uvArg, dlRes, tmp, dlLeft, netCalls>>
    /\ UNCHANGED <<desc, bexDir, envhashFile, venv, reqIn, reqTxt>>
    /\ UNCHANGED <<cliVars, wpVars, cancelled>>
    /\ UNCHANGED ioVars
    /\ UNCHANGED dlVars
    /\ UNCHANGED hookVars

\* `p.chmod(p.stat().st_mode | stat.S_IXUSR)`
ExtractChmod(p) ==
    /\ upc[p] = "chmod"
    /\ \/ /\ uvBin' = [uvBin EXCEPT !.xbit = TRUE]
          /\ uvRes' = [uvRes EXCEPT ![p] = [kind |-> "Path", msg |-> ""]]
          /\ upc' = [upc EXCEPT ![p] = "cleanup"]
       \/ /\ ExtractRaise(p)
          /\ UNCHANGED uvBin
    /\ UNCHANGED <<index, indexKnown, version, host, hostKnown, release, uvArg, dlRes, tmp, dlLeft, wrote, netCalls>>
    /\ UNCHANGED <<desc, bexDir, envhashFile, venv, reqIn, reqTxt>>
    /\ UNCHANGED <<cliVars, wpVars, cancelled>>
    /\ UNCHANGED ioVars
    /\ UNCHANGED dlVars
    /\ UNCHANGED hookVars

\* `temp_filename.unlink(missing_ok=True)` under suppress(Exception), then
\* the result of the extraction is returned or raised.
UvCleanup(p) ==
    /\ upc[p] = "cleanup"
    /\ tmp' \in {[tmp EXCEPT ![p] = FALSE], tmp}
    /\ upc' = [upc EXCEPT ![p] = "done"]
    /\ UNCHANGED <<index, indexKnown, version, host, hostKnown, release, uvArg, uvRes, dlRes, dlLeft, wrote, netCalls>>
    /\ UNCHANGED <<diskVars, cliVars, wpVars, cancelled>>
    /\ UNCHANGED ioVars
    /\ UNCHANGED dlVars
    /\ UNCHANGED hookVars

DownloadUv(p) ==
    \/ UvResolve(p)
    \/ UvExists(p)
    \/ UvReleaseInfo(p)
    \/ DownloadFileOpen(p)
    \/ DownloadFileCheck(p)
    \/ DownloadFileChunk(p)
    \/ DownloadFileEnd(p)
    \/ ExtractOpen(p)
    \/ ExtractCopy(p)
    \/ ExtractChmod(p)
    \/ UvCleanup(p)

\* ---------------------------------------------- wait_process (utils.py)
Alive(k) == k \in Steps /\ kids[k].state = "alive"
Exited(k) == k \in Steps /\ kids[k].state = "exited"

WpReturnParsed(kind, rc) ==
    /\ wpOut' = [kind |-> kind, rc |-> IF lines # <<>> THEN 1 ELSE rc,
                 cancelled |-> cancelled[Main]]
    /\ pc' = "wp_ret"

WpReturnNormalised(kind, rc) ==
    /\ wpOut' = [kind |-> kind, rc |-> IF rc = 0 THEN 0 ELSE 1,
                 cancelled |-> cancelled[Main]]
    /\ pc' = "wp_ret"

\* wait_process returns the value `process.poll()` gives.
WpReturn(kind, rc) ==
    /\ wpOut' = [kind |-> kind, rc |-> rc, cancelled |-> cancelled[Main]]
    /\ pc' = "wp_ret"

\* `subprocess.Popen(args, ..., stdout=subprocess.PIPE, ...)`: the child
\* runs the cached uv binary and process.stdout is the open read end of its
\* pipe; no statement of wait_process closes it (no `with process`, no
\* `process.stdout.close()`, no communicate), and the handler registered on
\* the token keeps `process` referenced after the return.  A child may be
\* one that neither ends on its own nor on SIGTERM (stubborn).  Each child
\* has a pipe of its own, empty at first.
WaitProcessPopen ==
    /\ pc = "wp_popen"
    /\ hpc = "none"
    /\ IF Runnable(uvBin)
       THEN /\ \E s \in BOOLEAN :
                 kids' = [kids EXCEPT ![step] =
                            [state |-> "alive", rc |-> 0, stubborn |-> s,
                             registered |-> FALSE, termSent |-> FALSE,
                             stdout |-> "open"]]
            /\ spawns' = spawns + 1
            /\ pc' = "wp_register"
            /\ UNCHANGED <<outcome, errMsg>>
       ELSE /\ Finish("OtherError", "")
            /\ UNCHANGED <<kids, spawns>>
    /\ UNCHANGED <<variant, cfg, envHash, hashedDesc, decision, exitStatus,
                   prevRun, cancelAt>>
    /\ UNCHANGED <<step, hpc, wpTimeout, wpOut>>
    /\ UNCHANGED <<diskVars, uvVars, cancelled>>
    /\ pipe' = 0
    /\ UNCHANGED <<callback, sent, lines>>
    /\ UNCHANGED dlVars
    /\ UNCHANGED hookVars

\* `process.poll() is None`, the guard of _terminate_process.
PollIsNoneUnguarded(k) == k \in Steps /\ kids[k].state # "none"
PollIsNone(k) == Alive(k)

\* The body of _terminate_process up to `process.wait(timeout=timeout)`:
\* nothing for a child that has exited, else SIGTERM and the wait begins.
TerminateProcessNoWait(k) ==
    /\ kids' = [kids EXCEPT ![k].termSent = PollIsNone(k), ![k].registered = TRUE]
    /\ hpc' = hpc
TerminateProcess(k) ==
    IF PollIsNone(k)
    THEN /\ kids' = [kids EXCEPT ![k].termSent = TRUE, ![k].registered = TRUE]
         /\ hpc' = "wait"
    ELSE /\ kids' = [kids EXCEPT ![k].registered = TRUE]
         /\ hpc' = hpc

\* `cancel_token.register(_terminate_process)`.  Whether registering on a
\* token that is already cancelled calls the handler at once is the
\* library's choice: both are allowed.
WaitProcessRegister ==
    /\ pc = "wp_register"
    /\ hpc = "none"
    /\ \/ /\ kids' = [kids EXCEPT ![step].registered = TRUE]
          /\ hpc' = hpc
       \/ /\ cancelled[Main]
          /\ TerminateProcess(step)
    /\ pc' = "wp_loop"
    /\ UNCHANGED <<variant, cfg, envHash, hashedDesc, decision, outcome, errMsg,
                   exitStatus, prevRun, cancelAt>>
    /\ UNCHANGED <<step, wpTimeout, wpOut, spawns>>
    /\ UNCHANGED <<diskVars, uvVars, cancelled>>
    /\ UNCHANGED ioVars
    /\ UNCHANGED dlVars
    /\ UNCHANGED hookVars

\* One evaluation of `... if process.poll() is None else ""`: a running
\* child leads to the blocking readline; an exited one to
\* _ProcessEndedError, `cancel_token.raise_if_cancelled()` and
\* `return process.poll()`.
WaitProcessPoll ==
    /\ pc = "wp_loop"
    /\ hpc = "none"
    /\ IF Alive(step)
       THEN /\ pc' = "wp_read"
            /\ UNCHANGED wpOut
       ELSE IF cancelled[Main]
            THEN WpReturn("cancelled", 0)
            ELSE WpReturn("code", kids[step].rc)
    /\ UNCHANGED <<variant, cfg, envHash, hashedDesc, decision, outcome, errMsg,
                   exitStatus, prevRun, cancelAt>>
    /\ UNCHANGED <<step, kids, hpc, wpTimeout, spawns>>
    /\ UNCHANGED <<diskVars, uvVars, cancelled>>
    /\ UNCHANGED ioVars
    /\ UNCHANGED dlVars
    /\ UNCHANGED hookVars

\* `stdout.readline() or "\n"`, reached when process.poll() was None: the
\* oldest unread line of the child is handed to the callback; at the end
\* of the stream (the child has exited meanwhile, nothing is left to read)
\* readline gives "" and the callback is handed the "" that "\n" strips to;
\* with nothing to read and the child running, readline blocks.  A read
\* that raises takes the `case Error()` branch.  The output of the build
\* steps (callback logger.debug) is not followed line by line.
WaitProcessRead ==
    /\ pc = "wp_read"
    /\ hpc = "none"
    /\ \/ /\ callback = "debug"
          /\ pc' = "wp_loop"
          /\ UNCHANGED <<pipe, lines>>
       \/ /\ callback = "record"
          /\ pipe > 0
          /\ lines' = Append(lines, sent - pipe + 1)
          /\ pipe' = pipe - 1
          /\ pc' = "wp_loop"
       \/ /\ callback = "record"
          /\ pipe = 0
          /\ Exited(step)
          /\ lines' = Append(lines, BlankLine)
          /\ pipe' = pipe
          /\ pc' = "wp_loop"
       \/ /\ pc' = "wp_err"
          /\ UNCHANGED <<pipe, lines>>
    /\ UNCHANGED <<variant, cfg, envHash, hashedDesc, decision, outcome, errMsg,
                   exitStatus, prevRun, cancelAt>>
    /\ UNCHANGED <<callback, sent>>
    /\ UNCHANGED <<wpVars, diskVars, uvVars, cancelled>>
    /\ UNCHANGED dlVars
    /\ UNCHANGED hookVars

\* `case Error(): _terminate_process(None)`.
WaitProcessErrTerminate ==
    /\ pc = "wp_err"
    /\ hpc = "none"
    /\ TerminateProcess(step)
    /\ pc' = "wp_errwait"
    /\ UNCHANGED <<variant, cfg, envHash, hashedDesc, decision, outcome, errMsg,
                   exitStatus, prevRun, cancelAt>>
    /\ UNCHANGED <<step, wpTimeout, wpOut, spawns>>
    /\ UNCHANGED <<diskVars, uvVars, cancelled>>
    /\ UNCHANGED ioVars
    /\ UNCHANGED dlVars
    /\ UNCHANGED hookVars

\* `return process.poll()` of the `case Error()` branch.
WaitProcessErrReturn ==
    /\ pc = "wp_errwait"
    /\ hpc = "none"
    /\ WpReturn("code", kids[step].rc)
    /\ UNCHANGED <<variant, cfg, envHash, hashedDesc, decision, outcome, errMsg,
                   exitStatus, prevRun, cancelAt>>
    /\ UNCHANGED <<step, kids, hpc, wpTimeout, spawns>>
    /\ UNCHANGED <<diskVars, uvVars, cancelled>>
    /\ UNCHANGED ioVars
    /\ UNCHANGED dlVars
    /\ UNCHANGED hookVars

\* `process.wait(timeout=timeout)` returns: the child has exited.
TerminateWaitReturn ==
    /\ hpc = "wait"
    /\ Exited(step)
    /\ hpc' = "none"
    /\ UNCHANGED <<step, kids, wpTimeout, wpOut, spawns>>
    /\ UNCHANGED <<diskVars, cliVars, uvVars, cancelled>>
    /\ UNCHANGED ioVars
    /\ UNCHANGED dlVars
    /\ UNCHANGED hookVars

\* `except subprocess.TimeoutExpired: process.kill(); process.wait()`:
\* only a wait with a timeout expires.
TerminateTimeoutKill ==
    /\ hpc = "wait"
    /\ wpTimeout = "finite"
    /\ Alive(step)
    /\ \E dmg \in BOOLEAN :
         /\ kids' = [kids EXCEPT ![step].state = "exited", ![step].rc = KillRc]
         /\ venv' = VenvAfter(step, KillRc, dmg)
    /\ hpc' = "none"
    /\ UNCHANGED <<step, wpTimeout, wpOut, spawns>>
    /\ reqTxt' = ReqTxtAfter(step, KillRc)
    /\ UNCHANGED <<desc, bexDir, envhashFile, reqIn, uvBin>>
    /\ UNCHANGED <<cliVars, uvVars, cancelled>>
    /\ UNCHANGED ioVars
    /\ UNCHANGED dlVars
    /\ UNCHANGED hookVars

\* -------------------------------------------------- the supervised child
\* The child ends on its own, with status 0 or 1.
ChildExit ==
    /\ Alive(step)
    /\ ~kids[step].stubborn
    /\ \E rc \in {0, 1}, dmg \in BOOLEAN :
         /\ kids' = [kids EXCEPT ![step].state = "exited", ![step].rc = rc]
         /\ venv' = VenvAfter(step, rc, dmg)
         /\ reqTxt' = ReqTxtAfter(step, rc)
    /\ UNCHANGED <<step, hpc, wpTimeout, wpOut, spawns>>
    /\ UNCHANGED <<desc, bexDir, envhashFile, reqIn, uvBin>>
    /\ UNCHANGED <<cliVars, uvVars, cancelled>>
    /\ UNCHANGED ioVars
    /\ UNCHANGED dlVars
    /\ UNCHANGED hookVars

\* The child writes one more line to its stdout / stderr, which Popen
\* joined into one pipe.
ChildWrite ==
    /\ Alive(step)
    /\ callback = "record"
    /\ sent < MaxLines
    /\ sent' = sent + 1
    /\ pipe' = pipe + 1
    /\ UNCHANGED <<callback, lines>>
    /\ UNCHANGED <<diskVars, cliVars, wpVars, uvVars, cancelled>>
    /\ UNCHANGED dlVars
    /\ UNCHANGED hookVars

\* The child dies of the SIGTERM that process.terminate() sent.
ChildTermExit ==
    /\ Alive(step)
    /\ kids[step].termSent
    /\ ~kids[step].stubborn
    /\ \E dmg \in BOOLEAN :
         /\ kids' = [kids EXCEPT ![step].state = "exited", ![step].rc = TermRc]
         /\ venv' = VenvAfter(step, TermRc, dmg)
    /\ UNCHANGED <<step, hpc, wpTimeout, wpOut, spawns>>
    /\ reqTxt' = ReqTxtAfter(step, TermRc)
    /\ UNCHANGED <<desc, bexDir, envhashFile, reqIn, uvBin>>
    /\ UNCHANGED <<cliVars, uvVars, cancelled>>
    /\ UNCHANGED ioVars
    /\ UNCHANGED dlVars
    /\ UNCHANGED hookVars

\* ------------------------------------------------- the cancellation signal
\* The phase of ensureReady the control thread is in.
Phase ==
    CASE pc \in {"wp_register", "wp_loop", "wp_read", "wp_err", "wp_errwait"} -> "step"
      [] pc = "acquiring" /\ upc[Main] \in {"dl_open", "dl_loop", "dl_chunk", "dl_end"} -> "download"
      [] pc = "acquiring" -> "acquire"
      [] OTHER -> "other"

\* The handlers registered on the token, one per wait_process call so far.
Handlers == {k \in Steps : kids[k].registered}

\* SIGINT / SIGTERM: `cancel()` marks the token and runs every registered
\* handler on the control thread, the handlers of the earlier steps
\* included; a handler whose guard passes sends SIGTERM and waits.
CancelFire ==
    /\ pc \notin {"idle", "done"}
    /\ ~cancelled[Main]
    /\ cancelled' = [cancelled EXCEPT ![Main] = TRUE]
    /\ cancelAt' = Phase
    /\ IF hpc = "none"
       THEN /\ kids' = [k \in Steps |->
                          IF k \in Handlers /\ PollIsNone(k)
                          THEN [kids[k] EXCEPT !.termSent = TRUE]
                          ELSE kids[k]]
            /\ hpc' = IF \E k \in Handlers : PollIsNone(k) THEN "wait" ELSE hpc
       ELSE UNCHANGED <<kids, hpc>>
    /\ UNCHANGED <<pc, variant, cfg, envHash, hashedDesc, decision, outcome,
                   errMsg, exitStatus, prevRun>>
    /\ UNCHANGED <<step, wpTimeout, wpOut, spawns>>
    /\ UNCHANGED <<diskVars, uvVars>>
    /\ UNCHANGED ioVars
    /\ UNCHANGED dlVars
    /\ UNCHANGED hookVars

\* ------------------------ _create_isolated_environment (cli.py)
\* After wait_process: a Cancelled error leaves the build, a non-zero status
\* raises the step's BexPyVenvError, status 0 goes on: requirements.in is
\* written before the lock step, python_bin is returned after the sync step.
CreateIsolatedEnvironment ==
    /\ pc = "wp_ret"
    /\ hpc = "none"
    /\ \/ /\ wpOut.kind = "cancelled"
          /\ Finish("Cancelled", "")
          /\ UNCHANGED <<step, reqIn>>
       \/ /\ wpOut.kind = "code"
          /\ StepFailed(wpOut.rc)
          /\ Finish("PyVenvError", StepMsg(step))
          /\ UNCHANGED <<step, reqIn>>
       \/ /\ wpOut.kind = "code"
          /\ ~StepFailed(wpOut.rc)
          /\ step = 1
          /\ \/ /\ reqIn' = WriteBytes(reqIn, cfg)
                /\ step' = 2
                /\ pc' = "wp_popen"
                /\ UNCHANGED <<outcome, errMsg>>
             \/ /\ Finish("OtherError", "")
                /\ UNCHANGED <<step, reqIn>>
       \/ /\ wpOut.kind = "code"
          /\ ~StepFailed(wpOut.rc)
          /\ step = 2
          /\ step' = 3
          /\ pc' = "wp_popen"
          /\ UNCHANGED <<outcome, errMsg, reqIn>>
       \/ /\ wpOut.kind = "code"
          /\ ~StepFailed(wpOut.rc)
          /\ step = 3
          /\ pc' = "persist"
          /\ UNCHANGED <<outcome, errMsg, step, reqIn>>
    /\ wpOut' = NoOut
    /\ UNCHANGED <<variant, cfg, envHash, hashedDesc, decision, exitStatus,
                   prevRun, cancelAt>>
    /\ UNCHANGED <<kids, hpc, wpTimeout, spawns>>
    /\ UNCHANGED <<desc, bexDir, envhashFile, venv, reqTxt, uvBin>>
    /\ UNCHANGED <<uvVars, cancelled>>
    /\ UNCHANGED ioVars
    /\ UNCHANGED dlVars
    /\ UNCHANGED hookVars

\* ------------------------------------------------------- specifications
RunStep ==
    \/ StartRun
    \/ BootstrapMkdir
    \/ BootstrapHash
    \/ BootstrapCheck
    \/ BootstrapAcquire
    \/ DownloadUv(Main)
    \/ BootstrapAcquired
    \/ WaitProcessPopen
    \/ WaitProcessRegister
    \/ WaitProcessPoll
    \/ WaitProcessRead
    \/ WaitProcessErrTerminate
    \/ WaitProcessErrReturn
    \/ TerminateWaitReturn
    \/ CreateIsolatedEnvironment
    \/ BootstrapPersist
    \/ Exit
    \/ EndRun

Next ==
    \/ RunStep
    \/ ChildExit
    \/ ChildTermExit
    \/ CancelFire
    \/ EditDescriptor
    \/ DeleteVenv

\* The user edits the descriptor only while no run is in progress.
EditBetweenRuns ==
    /\ pc = "idle"
    /\ EditDescriptor

NextCore ==
    \/ RunStep
    \/ ChildExit
    \/ ChildTermExit
    \/ CancelFire
    \/ EditBetweenRuns

Spec == Init /\ [][Next]_vars

SpecCore == Init /\ [][NextCore]_vars

\* Two independent runs enter download_uv for the same version with an
\* empty cache; each has its own token and temp file.
InitRace ==
    /\ desc \in Contents
    /\ bexDir = TRUE
    /\ envhashFile = Absent
    /\ venv = NoVenv
    /\ reqIn = 0
    /\ reqTxt = 0
    /\ uvBin = NoBin
    /\ InitRun
    /\ NoExecutor

RaceStart(p) ==
    /\ upc[p] = "idle"
    /\ upc' = [upc EXCEPT ![p] = "resolve"]
    /\ uvArg' = [uvArg EXCEPT ![p] = PinsUv(desc)]
    /\ UNCHANGED <<index, indexKnown, version, host, hostKnown, release, uvRes, dlRes, tmp, dlLeft, wrote, netCalls>>
    /\ UNCHANGED <<diskVars, cliVars, wpVars, cancelled>>
    /\ UNCHANGED ioVars
    /\ UNCHANGED dlVars
    /\ UNCHANGED hookVars

NextRace ==
    \/ \E p \in Procs : RaceStart(p)
    \/ \E p \in Procs : DownloadUv(p)

SpecRace == InitRace /\ [][NextRace]_vars

\* Version resolution on its own: the release index holds a given list,
\* download_uv is entered with or without a pinned version.
InitResolve ==
    /\ desc \in Contents
    /\ bexDir = TRUE
    /\ envhashFile = Absent
    /\ venv = NoVenv
    /\ reqIn = 0
    /\ reqTxt = 0
    /\ uvBin \in {NoBin, FullBin}
    /\ pc = "idle"
    /\ variant = "bex"
    /\ cfg = Missing
    /\ envHash = EmptyText
    /\ hashedDesc = Missing
    /\ decision = "none"
    /\ outcome = "none"
    /\ errMsg = ""
    /\ exitStatus = -1
    /\ prevRun = NoPrev
    /\ cancelAt = "none"
    /\ step = 0
    /\ kids = [k \in Steps |-> NoKid]
    /\ hpc = "none"
    /\ wpTimeout = "none"
    /\ wpOut = NoOut
    /\ spawns = 0
    /\ callback = "debug"
    /\ sent = 0
    /\ pipe = 0
    /\ lines = <<>>
    /\ upc = [p \in Procs |-> "idle"]
    /\ uvArg = [p \in Procs |-> FALSE]
    /\ index \in Indexes
    /\ indexKnown = TRUE
    /\ version = [p \in Procs |-> NoVersion]
    /\ host = AnyHost
    /\ hostKnown = FALSE
    /\ release = [p \in Procs |-> Nothing]
    /\ uvRes = [p \in Procs |-> NoRes]
    /\ dlRes = [p \in Procs |-> "none"]
    /\ tmp = [p \in Procs |-> FALSE]
    /\ dlLeft = [p \in Procs |-> 0]
    /\ hdr = [p \in Procs |-> NoHeader]
    /\ dlDone = [p \in Procs |-> 0]
    /\ progress = [p \in Procs |-> <<>>]
    /\ late = [p \in Procs |-> 0]
    /\ wrote = [p \in Procs |-> 0]
    /\ netCalls = [p \in Procs |-> 0]
    /\ cancelled = [p \in Procs |-> FALSE]
    /\ NoExecutor

NextResolve ==
    \/ RaceStart(Main)
    \/ UvResolve(Main)
    \/ UvExists(Main)

SpecResolve == InitResolve /\ [][NextResolve]_vars

\* The platform mapping on its own: download_uv is entered on a given
\* machine with nothing cached.
InitPlatform ==
    /\ desc \in Contents
    /\ bexDir = TRUE
    /\ envhashFile = Absent
    /\ venv = NoVenv
    /\ reqIn = 0
    /\ reqTxt = 0
    /\ uvBin = NoBin
    /\ pc = "idle"
    /\ variant = "bex"
    /\ cfg = Missing
    /\ envHash = EmptyText
    /\ hashedDesc = Missing
    /\ decision = "none"
    /\ outcome = "none"
    /\ errMsg = ""
    /\ exitStatus = -1
    /\ prevRun = NoPrev
    /\ cancelAt = "none"
    /\ step = 0
    /\ kids = [k \in Steps |-> NoKid]
    /\ hpc = "none"
    /\ wpTimeout = "none"
    /\ wpOut = NoOut
    /\ spawns = 0
    /\ callback = "debug"
    /\ sent = 0
    /\ pipe = 0
    /\ lines = <<>>
    /\ upc = [p \in Procs |-> "idle"]
    /\ uvArg = [p \in Procs |-> FALSE]
    /\ index = <<>>
    /\ indexKnown = FALSE
    /\ version = [p \in Procs |-> NoVersion]
    /\ host \in Hosts
    /\ hostKnown = TRUE
    /\ release = [p \in Procs |-> Nothing]
    /\ uvRes = [p \in Procs |-> NoRes]
    /\ dlRes = [p \in Procs |-> "none"]
    /\ tmp = [p \in Procs |-> FALSE]
    /\ dlLeft = [p \in Procs |-> 0]
    /\ hdr = [p \in Procs |-> NoHeader]
    /\ dlDone = [p \in Procs |-> 0]
    /\ progress = [p \in Procs |-> <<>>]
    /\ late = [p \in Procs |-> 0]
    /\ wrote = [p \in Procs |-> 0]
    /\ netCalls = [p \in Procs |-> 0]
    /\ cancelled = [p \in Procs |-> FALSE]
    /\ NoExecutor

NextPlatform ==
    \/ RaceStart(Main)
    \/ UvResolve(Main)
    \/ UvExists(Main)
    \/ UvReleaseInfo(Main)

SpecPlatform == InitPlatform /\ [][NextPlatform]_vars

\* wait_process called on its own for the first build step, with or
\* without a timeout, on a cached binary that runs.
InitWait ==
    /\ desc \in Contents
    /\ bexDir = TRUE
    /\ envhashFile = Absent
    /\ venv \in {NoVenv} \cup {[exists |-> TRUE, py |-> c, pkgs |-> c] : c \in Contents}
    /\ reqIn = 0
    /\ reqTxt = 0
    /\ uvBin = FullBin
    /\ InitRun
    /\ NoExecutor

WaitStart ==
    /\ pc = "idle"
    /\ step = 0
    /\ pc' = "wp_popen"
    /\ step' = 1
    /\ cfg' = desc
    /\ \E t \in {"none", "finite"} : wpTimeout' = t
    /\ callback' = "record"
    /\ UNCHANGED <<variant, envHash, hashedDesc, decision, outcome, errMsg,
                   exitStatus, prevRun, cancelAt>>
    /\ UNCHANGED <<kids, hpc, wpOut, spawns>>
    /\ UNCHANGED <<sent, pipe, lines>>
    /\ UNCHANGED <<diskVars, uvVars, cancelled>>
    /\ UNCHANGED dlVars
    /\ UNCHANGED hookVars

NextWait ==
    \/ WaitStart
    \/ WaitProcessPopen
    \/ WaitProcessRegister
    \/ WaitProcessPoll
    \/ WaitProcessRead
    \/ WaitProcessErrTerminate
    \/ WaitProcessErrReturn
    \/ TerminateWaitReturn
    \/ TerminateTimeoutKill
    \/ ChildWrite
    \/ ChildExit
    \/ ChildTermExit
    \/ CancelFire

SpecWait == InitWait /\ [][NextWait]_vars

\* _create_isolated_environment on its own: the three steps on a cached
\* binary that runs, the children writing what they like, no cancellation.
InitBuild ==
    /\ desc \in Contents
    /\ bexDir = TRUE
    /\ envhashFile = Absent
    /\ venv = NoVenv
    /\ reqIn = 0
    /\ reqTxt = 0
    /\ uvBin = FullBin
    /\ InitRun
    /\ NoExecutor

BuildStart ==
    /\ pc = "idle"
    /\ step = 0
    /\ pc' = "wp_popen"
    /\ step' = 1
    /\ cfg' = desc
    /\ callback' = "record"
    /\ UNCHANGED <<variant, envHash, hashedDesc, decision, outcome, errMsg,
                   exitStatus, prevRun, cancelAt>>
    /\ UNCHANGED <<kids, hpc, wpTimeout, wpOut, spawns>>
    /\ UNCHANGED <<sent, pipe, lines>>
    /\ UNCHANGED <<diskVars, uvVars, cancelled>>
    /\ UNCHANGED dlVars
    /\ UNCHANGED hookVars

NextBuild ==
    \/ BuildStart
    \/ WaitProcessPopen
    \/ WaitProcessRegister
    \/ WaitProcessPoll
    \/ WaitProcessRead
    \/ WaitProcessErrTerminate
    \/ WaitProcessErrReturn
    \/ TerminateWaitReturn
    \/ CreateIsolatedEnvironment
    \/ ChildWrite
    \/ ChildExit
    \/ ChildTermExit

SpecBuild == InitBuild /\ [][NextBuild]_vars

\* ------------------------------------------ the hook executor (executor.py)
\* env.hooks holds at most MaxHooks hooks.
MaxHooks == 2

\* Hook ids, the value of `if_` when the hook has no condition, and what
\* cel.evaluate gives for a condition: a CEL value, or it raises.
HookIds == {"files/archive", "files/download"}
NoIf == "<none>"
CelValues == {"true", "false", "0", "1"}
Conditions == {NoIf, "raises"} \cup CelValues
HookEntries == [id : HookIds, if_ : Conditions]

\* Python's bool() of a CEL value.
Bool(v) == v \notin {"false", "0"}

\* `hook.if_ is not None and bool(cel.evaluate(hook.if_, cel_ctx)) is False`
SkipHookNever(c) == FALSE
SkipHook(c) == c # NoIf /\ ~Bool(c)

\* The results of _execute_hook that are an Error.
HookErrors == {"EvalError", "Cancelled", "NotExists", "HookError"}

\* _execute_hook returns: the generator of execute goes on.
HookReturn(res, called) ==
    /\ processed' = Append(processed,
                           [id |-> envHooks[hookAt].id, if_ |-> envHooks[hookAt].if_,
                            res |-> res, entry |-> atEntry, called |-> called])
    /\ hookPc' = "next"

\* execute up to the loop over env.hooks: the plugins are loaded (or
\* load_plugins fails and execute returns its error) and their hooks
\* gathered in `hooks`.
Execute ==
    /\ hookPc = "idle"
    /\ hookPc' \in {"next", "end"}
    /\ UNCHANGED <<hooks, envHooks, hookAt, ctxCancelled, atEntry, processed>>
    /\ UNCHANGED <<diskVars, cliVars, wpVars, uvVars, ioVars, dlVars, cancelled>>

\* `_execute_hook(...) for hook in env.hooks`: the next hook is taken.
\* Whether result.collect_all asks for the next hook after an Error is
\* the library's choice: both are allowed.
ExecuteNext ==
    /\ hookPc = "next"
    /\ hookAt < Len(envHooks)
    /\ hookAt' = hookAt + 1
    /\ atEntry' = ctxCancelled
    /\ hookPc' = "cond"
    /\ UNCHANGED <<hooks, envHooks, ctxCancelled, processed>>
    /\ UNCHANGED <<diskVars, cliVars, wpVars, uvVars, ioVars, dlVars, cancelled>>

\* collect_all is done: every hook was taken, or one gave an Error.
ExecuteReturn ==
    /\ hookPc = "next"
    /\ \/ hookAt = Len(envHooks)
       \/ \E i \in 1..Len(processed) : processed[i].res \in HookErrors
    /\ hookPc' = "end"
    /\ UNCHANGED <<hooks, envHooks, hookAt, ctxCancelled, atEntry, processed>>
    /\ UNCHANGED <<diskVars, cliVars, wpVars, uvVars, ioVars, dlVars, cancelled>>

\* The first `match` of _execute_hook: cel_ctx.update or cel.evaluate
\* raises (Error), the condition says skip (Ok(None)), or the hook goes on.
ExecuteHookCond ==
    /\ hookPc = "cond"
    /\ \/ /\ HookReturn("EvalError", FALSE)
       \/ /\ envHooks[hookAt].if_ # "raises"
          /\ SkipHook(envHooks[hookAt].if_)
          /\ HookReturn("Skipped", FALSE)
       \/ /\ envHooks[hookAt].if_ # "raises"
          /\ ~SkipHook(envHooks[hookAt].if_)
          /\ hookPc' = "token"
          /\ UNCHANGED processed
    /\ UNCHANGED <<hooks, envHooks, hookAt, ctxCancelled, atEntry>>
    /\ UNCHANGED <<diskVars, cliVars, wpVars, uvVars, ioVars, dlVars, cancelled>>

\* `if is_token_cancelled(ctx): return Error(ctx.get_error())`
ExecuteHookToken ==
    /\ hookPc = "token"
    /\ IF ctxCancelled
       THEN HookReturn("Cancelled", FALSE)
       ELSE /\ hookPc' = "lookup"
            /\ UNCHANGED processed
    /\ UNCHANGED <<hooks, envHooks, hookAt, ctxCancelled, atEntry>>
    /\ UNCHANGED <<diskVars, cliVars, wpVars, uvVars, ioVars, dlVars, cancelled>>

\* `match optional_of(hooks.get, hook.id)`
ExecuteHookLookup ==
    /\ hookPc = "lookup"
    /\ IF envHooks[hookAt].id \in hooks
       THEN /\ hookPc' = "call"
            /\ UNCHANGED processed
       ELSE HookReturn("NotExists", FALSE)
    /\ UNCHANGED <<hooks, envHooks, hookAt, ctxCancelled, atEntry>>
    /\ UNCHANGED <<diskVars, cliVars, wpVars, uvVars, ioVars, dlVars, cancelled>>

\* `hook_func(ctx, hook.__pydantic_extra__, logger=logger)` returns or
\* raises.
ExecuteHookCall ==
    /\ hookPc = "call"
    /\ \E res \in {"Ok", "HookError"} : HookReturn(res, TRUE)
    /\ UNCHANGED <<hooks, envHooks, hookAt, ctxCancelled, atEntry>>
    /\ UNCHANGED <<diskVars, cliVars, wpVars, uvVars, ioVars, dlVars, cancelled>>

\* The token of ctx is cancelled while the executor runs.
HookCancel ==
    /\ hookPc # "end"
    /\ ~ctxCancelled
    /\ ctxCancelled' = TRUE
    /\ UNCHANGED <<hooks, envHooks, hookAt, hookPc, atEntry, processed>>
    /\ UNCHANGED <<diskVars, cliVars, wpVars, uvVars, ioVars, dlVars, cancelled>>

\* execute on any set of registered hooks and any list of hooks to run.
InitHooks ==
    /\ desc \in Contents
    /\ bexDir = TRUE
    /\ envhashFile = Absent
    /\ venv = NoVenv
    /\ reqIn = 0
    /\ reqTxt = 0
    /\ uvBin = NoBin
    /\ InitRun
    /\ hooks \in SUBSET HookIds
    /\ envHooks \in UNION {[1..n -> HookEntries] : n \in 0..MaxHooks}
    /\ hookAt = 0
    /\ hookPc = "idle"
    /\ ctxCancelled = FALSE
    /\ atEntry = FALSE
    /\ processed = <<>>

NextHooks ==
    \/ Execute
    \/ ExecuteNext
    \/ ExecuteReturn
    \/ ExecuteHookCond
    \/ ExecuteHookToken
    \/ ExecuteHookLookup
    \/ ExecuteHookCall
    \/ HookCancel

SpecHooks == InitHooks /\ [][NextHooks]_vars

\* ----------------------------------------------------------------- claims
\* C1: whenever a run takes the hash-match skip branch, the environment on
\* disk is the one a fully successful build of the descriptor's current
\* contents produced (checked under SpecCore: descriptor edits between
\* runs, step failures, cancellations and failed hash writes).
C1_SkipOntoCurrentBuild ==
    decision = "skip" => hashedDesc # Missing /\ Built(hashedDesc)

\* C2 (as stated): after a call that succeeded, a second call with
\* byte-identical descriptor contents (one that reads .envhash back) spawns
\* no child, opens no network request and returns the runtime path.
C2_SecondCallDoesNothing ==
    (pc = "done" /\ prevRun.ok /\ prevRun.hashed # Missing
        /\ hashedDesc = prevRun.hashed /\ decision # "readerr")
    => (spawns = 0 /\ netCalls[Main] = 0 /\ outcome = "Ok")

\* C2 (amended): after a call that succeeded and left its hash in .envhash,
\* a second call with byte-identical descriptor contents that can read
\* .envhash spawns no child, opens no network request and returns the
\* runtime path.
C2_SecondCallAfterPersistedHash ==
    (pc = "done" /\ prevRun.ok /\ prevRun.persisted /\ prevRun.hashed # Missing
        /\ hashedDesc = prevRun.hashed /\ decision # "readerr")
    => (spawns = 0 /\ netCalls[Main] = 0 /\ outcome = "Ok" /\ decision = "skip")

C2_Witness ==
    /\ pc = "done"
    /\ prevRun.ok /\ prevRun.persisted
    /\ prevRun.hashed # Missing /\ hashedDesc = prevRun.hashed
    /\ decision = "skip" /\ outcome = "Ok" /\ spawns = 0

\* C3: the cache record is trusted (the run skips) only if the hash file
\* exists, the built environment exists and the stored hash is the hash of
\* the current descriptor bytes; otherwise the run does not skip.
C3_TrustedOnlyIfComplete ==
    decision = "skip" =>
        /\ envhashFile # Absent
        /\ venv.exists
        /\ hashedDesc # Missing
        /\ envhashFile = Sha1Hex(hashedDesc)

\* C4: the hash computed for given descriptor bytes is always the same
\* text, and whenever the text read from .envhash differs from the hash of
\* the current descriptor bytes the run goes on to the rebuild (the call of
\* download_uv, then the build), never to the skip.
C4_MismatchRebuilds ==
    /\ [](pc \in {"check", "acquire", "acquiring"} /\ hashedDesc # Missing
            => envHash = Sha1Hex(hashedDesc))
    /\ [][(pc = "check" /\ pc' # "check" /\ hashedDesc # Missing
             /\ envhashFile # Absent /\ envhashFile # Sha1Hex(hashedDesc)
             /\ decision' # "readerr")
          => (decision' = "rebuild" /\ pc' = "acquire")]_vars
    /\ [](spawns > 0 => decision = "rebuild" /\ uvRes[Main].kind = "Path")

C4_Witness ==
    /\ pc = "wp_register" /\ step = 1
    /\ decision = "rebuild"
    /\ hashedDesc # Missing
    /\ envhashFile # Absent /\ envhashFile # Sha1Hex(hashedDesc)

\* C5: if the cancellation signal fires during the toolchain download or
\* during one of the three supervised steps, the run ends Cancelled and the
\* CLI exits with status 3, never with status 1 (stated for the runs in
\* which the HTTP transfer itself did not fail).
C5_CancelledWins ==
    (pc = "done" /\ cancelAt \in {"download", "step"} /\ dlRes[Main] # "HttpError")
    => (outcome = "Cancelled" /\ exitStatus = ExitCancelled)

\* C6: when cancellation fired while a supervised child of a build step was
\* running and the handler, having asked it to terminate, waits for it, the
\* wait always can end: the child ends, or the bounded timeout expires and
\* the child is force-killed; supervision never blocks for good on a child
\* that ignores the graceful termination.
C6_TerminationLadder ==
    (hpc = "wait" /\ Alive(step) /\ cancelAt = "step")
    => ENABLED (ChildExit \/ ChildTermExit \/ TerminateTimeoutKill)

\* C7: if the token was cancelled during the call and before wait_process
\* returns, the call surfaces Cancelled and not the child's exit status, on
\* every path out of the loop.
C7_CancelledSurfaces ==
    (pc = "wp_ret" /\ wpOut.cancelled /\ cancelAt = "step")
    => wpOut.kind = "cancelled"

\* C8: when two runs race through a first-time download_uv, every run that
\* obtains the binary path obtains a completely written, executable binary.
C8_RaceTolerated ==
    \A p \in Procs :
        (upc[p] = "done" /\ uvRes[p].kind = "Path") => Runnable(uvBin)

\* C9: download_uv has returned the binary before any build step is
\* spawned; create-environment, lock and sync are spawned in that order,
\* one at a time, each only after the previous child exited with status 0;
\* the build returns the runtime path only after sync exited with status 0.
C9_FixedOrder ==
    /\ \A k \in Steps :
          kids[k].state # "none" => upc[Main] = "done" /\ uvRes[Main].kind = "Path"
    /\ \A k \in 2..3 :
          kids[k].state # "none" => kids[k - 1].state = "exited" /\ kids[k - 1].rc = 0
    /\ Cardinality({k \in Steps : kids[k].state = "alive"}) <= 1
    /\ (pc = "persist" \/ (decision = "rebuild" /\ outcome = "Ok"))
          => kids[3].state = "exited" /\ kids[3].rc = 0

C9_Witness ==
    /\ pc = "done"
    /\ decision = "rebuild" /\ outcome = "Ok"
    /\ spawns = 3

\* C10 (as stated): a non-zero exit of build step k ends the run with the
\* environment error of that step, and no later step is spawned.
C10_NonZeroExitIsStepError ==
    \A k \in Steps :
        (pc = "done" /\ kids[k].state = "exited" /\ kids[k].rc # 0)
        => /\ outcome = "PyVenvError"
           /\ k = 1 => errMsg = "Failed to create python virtual environment"
           /\ k = 2 => errMsg = "Failed to compile pip requirements"
           /\ k = 3 => errMsg = "Failed to sync pip requirements"
           /\ \A j \in Steps : j > k => kids[j].state = "none"

\* C10 (amended): a non-zero exit of build step k never lets a later step be
\* spawned, and in a run whose token is not cancelled it ends the run with
\* the BexPyVenvError carrying that step's own message.
C10_NonZeroExitUncancelled ==
    \A k \in Steps :
        (kids[k].state = "exited" /\ kids[k].rc # 0)
        => /\ \A j \in Steps : j > k => kids[j].state = "none"
           /\ (pc = "done" /\ ~cancelled[Main]) =>
                /\ outcome = "PyVenvError"
                /\ exitStatus = ExitFailure
                /\ k = 1 => errMsg = "Failed to create python virtual environment"
                /\ k = 2 => errMsg = "Failed to compile pip requirements"
                /\ k = 3 => errMsg = "Failed to sync pip requirements"

C10_Witness ==
    /\ pc = "done"
    /\ ~cancelled[Main]
    /\ kids[2].state = "exited" /\ kids[2].rc # 0
    /\ outcome = "PyVenvError"
    /\ errMsg = "Failed to compile pip requirements"

\* C11: .envhash changes only in the write that follows the acquisition and
\* three build steps that exited 0; a completed write leaves the hash of
\* the descriptor bytes this run read; and a call that ends in a failure or
\* Cancelled has left .envhash exactly as it found it.
C11_HashFileFrame ==
    /\ [][envhashFile' # envhashFile =>
            /\ pc = "persist"
            /\ uvRes[Main].kind = "Path"
            /\ \A k \in Steps : kids[k].state = "exited" /\ kids[k].rc = 0]_vars
    /\ [][(envhashFile' \notin {envhashFile, EmptyText} /\ hashedDesc # Missing)
            => envhashFile' = Sha1Hex(hashedDesc)]_vars
    /\ [][envhashFile' # envhashFile => outcome' = "Ok"]_vars

\* C12: a write of .envhash that fails after a successful build does not
\* fail the call: the call still ends Ok, with the path of the runtime.
C12_HashWriteFailureSwallowed ==
    [][(pc = "persist" /\ envhashFile' # envHash) => outcome' = "Ok"]_vars

\* C13: when a build step fails or the build is cancelled, what the earlier
\* successful steps created is still there when the call ends: the cached
\* uv binary, the .venv of step 1, requirements.in and requirements.txt;
\* and no step of a run removes any of them.
C13_NoRollback ==
    /\ []((pc \in {"exit", "done"} /\ decision = "rebuild"
             /\ outcome \in {"PyVenvError", "Cancelled"})
          => /\ uvBin.exists
             /\ (kids[1].state = "exited" /\ kids[1].rc = 0) => venv.exists
             /\ step >= 2 => reqIn = cfg
             /\ (kids[2].state = "exited" /\ kids[2].rc = 0) => reqTxt = cfg)
    /\ [][pc # "idle" =>
            /\ uvBin.exists => uvBin'.exists
            /\ venv.exists => venv'.exists
            /\ reqIn # 0 => reqIn' # 0
            /\ reqTxt # 0 => reqTxt' # 0]_vars

C13_Witness ==
    /\ pc = "done"
    /\ outcome = "PyVenvError"
    /\ kids[3].state = "exited" /\ kids[3].rc # 0
    /\ uvBin.exists /\ venv.exists /\ reqIn = cfg /\ reqTxt = cfg

\* C14: within one call the release index is queried at most once, the
\* archive is requested at most once and each build step is spawned at most
\* once; once a network request or a child has failed, the call opens no
\* further request, spawns no further child and ends with an error.
C14_NoRetry ==
    /\ [](/\ netCalls[Main] <= (IF uvArg[Main] THEN 0 ELSE 1)
                               + (IF dlRes[Main] # "none" \/ upc[Main] \in {"dl_loop", "dl_chunk", "dl_end"}
                                  THEN 1 ELSE 0)
          /\ spawns = Cardinality({k \in Steps : kids[k].state # "none"})
          /\ spawns <= 3)
    /\ []((pc \in {"exit", "done"}
             /\ \/ \E k \in Steps : kids[k].state = "exited" /\ kids[k].rc # 0
                \/ dlRes[Main] = "HttpError"
                \/ uvRes[Main].kind \in {"UvError", "RawError"})
          => outcome \notin {"none", "Ok"})
    /\ [][(pc # "done"
             /\ \/ \E k \in Steps : kids[k].state = "exited" /\ kids[k].rc # 0
                \/ dlRes[Main] = "HttpError"
                \/ uvRes[Main].kind \in {"UvError", "RawError"})
          => (spawns' = spawns /\ netCalls' = netCalls)]_vars

C14_Witness ==
    /\ pc = "done"
    /\ dlRes[Main] = "HttpError"
    /\ netCalls[Main] = 2
    /\ spawns = 0
    /\ outcome = "UvError"

\* C15 (as stated): when download_uv finds the cached binary and returns its
\* path, it has made no network access at all.
C15_SkipOnExistsNoNetwork ==
    (upc[Main] = "done" /\ uvRes[Main].kind = "Path" /\ dlRes[Main] = "none")
    => netCalls[Main] = 0

\* C15 (amended): once the version is known, a binary found at
\* uv-<version> is returned at once, whatever its content, without a
\* download and without touching the file; the only network access of such
\* a call is the release index query of an unpinned version.
C15_SkipOnExistsAfterResolution ==
    /\ [][(upc[Main] = "exists" /\ upc'[Main] # "exists" /\ uvBin.exists)
          => /\ upc'[Main] = "done"
             /\ uvRes'[Main].kind = "Path"
             /\ netCalls' = netCalls
             /\ uvBin' = uvBin]_vars
    /\ []((upc[Main] = "done" /\ uvRes[Main].kind = "Path" /\ dlRes[Main] = "none")
          => netCalls[Main] = (IF uvArg[Main] THEN 0 ELSE 1))

C15_Witness ==
    /\ upc[Main] = "done"
    /\ uvRes[Main].kind = "Path"
    /\ dlRes[Main] = "none"
    /\ uvArg[Main]
    /\ netCalls[Main] = 0
    /\ ~Runnable(uvBin)

\* C16: when the token is cancelled during the transfer, download_file
\* stops reading, deletes the partial temp file and fails with the token's
\* cancellation error; and after a call that failed with Cancelled the temp
\* file does not exist.
C16_CancelLeavesNoTemp ==
    /\ (upc[Main] \notin {"dl_open", "dl_loop", "dl_chunk", "dl_end"}
          /\ cancelAt = "download" /\ dlRes[Main] # "HttpError")
       => (dlRes[Main] = "Cancelled" /\ ~tmp[Main] /\ wrote[Main] = 0)
    /\ dlRes[Main] = "Cancelled" => ~tmp[Main]

\* C17: in a call that is not cancelled and returns through the
\* stream-exhausted exit of the loop, the callback has been handed exactly
\* the lines the child wrote, each once and in order: none lost, none added.
C17_LinesRelayed ==
    [][(pc = "wp_loop" /\ pc' = "wp_ret" /\ callback = "record" /\ ~cancelled[Main])
       => lines = [i \in 1..sent |-> i]]_vars

\* C18: a wait_process call during which the token was not cancelled
\* returns an exit status, and it is exactly the status the child exited
\* with (0, 1, or the negated signal number).
C18_RawExitStatus ==
    (pc = "wp_ret" /\ ~wpOut.cancelled)
    => /\ wpOut.kind = "code"
       /\ Exited(step)
       /\ wpOut.rc = kids[step].rc

C18_Witness ==
    /\ pc = "wp_ret"
    /\ ~wpOut.cancelled
    /\ wpOut.kind = "code"
    /\ wpOut.rc = TermRc
    /\ kids[step].rc = TermRc

\* C19: a pinned version is used as given and the release index is not
\* queried; otherwise the version is the name of a release that is neither
\* draft nor prerelease and no such release was published later; and when
\* the index lists no such release the resolution fails with a BexUvError.
C19_VersionResolution ==
    /\ (upc[Main] = "exists" /\ uvArg[Main])
       => (version[Main] = PinnedVersion /\ netCalls[Main] = 0)
    /\ (upc[Main] = "exists" /\ ~uvArg[Main])
       => /\ netCalls[Main] = 1
          /\ version[Main] \in 1..Len(index)
          /\ ~index[version[Main]].draft
          /\ ~index[version[Main]].prerelease
          /\ \A j \in 1..Len(index) :
                (~index[j].draft /\ ~index[j].prerelease)
                => index[j].published_at <= index[version[Main]].published_at
    /\ (upc[Main] \notin {"idle", "resolve"} /\ ~uvArg[Main]
          /\ \A j \in 1..Len(index) : index[j].draft \/ index[j].prerelease)
       => (upc[Main] = "done" /\ uvRes[Main].kind \in {"UvError", "RawError"})
    /\ (upc[Main] = "done" /\ uvRes[Main].kind = "UvError")
       => \A j \in 1..Len(index) : index[j].draft \/ index[j].prerelease

C19_Witness ==
    /\ upc[Main] = "exists"
    /\ ~uvArg[Main]
    /\ Len(index) = 2
    /\ index[2].prerelease /\ ~index[2].draft
    /\ index[2].published_at > index[1].published_at
    /\ version[Main] = 1

\* C20: when the query of the release index raises (the request fails or
\* the answer cannot be read), the call ends with the toolchain error
\* BexUvError, never with the raw error.
C20_QueryErrorWrapped ==
    (uvRes[Main].kind = "RawError" /\ outcome # "none") => outcome = "UvError"

\* C21: whenever download_uv has consulted the platform mapping, on every
\* machine of the bounded set: (Windows, AMD64) gives the target
\* x86_64-pc-windows-msvc or -gnu and a .zip archive; (Darwin, arm64) gives
\* aarch64-apple-darwin without an ABI suffix; (Linux, x86_64) gives
\* x86_64-unknown-linux-musl on musl and -gnu on glibc, both .tar.gz; the
\* two spellings of an architecture give the same result; an unrecognised
\* OS or architecture gives nothing and download_uv fails with its
\* BexUvError "Could not find release info for UV".
C21_PlatformMapping ==
    ( \/ upc[Main] = "dl_open"
      \/ /\ upc[Main] = "done"
         /\ uvRes[Main].msg = "Could not find release info for UV" ) =>
    /\ (host.system = "Windows" /\ host.machine = "AMD64")
       => /\ release[Main].target \in {"uv-x86_64-pc-windows-msvc",
                                       "uv-x86_64-pc-windows-gnu"}
          /\ release[Main].filename = release[Main].target \o ".zip"
    /\ (host.system = "Darwin" /\ host.machine = "arm64")
       => release[Main] = [filename |-> "uv-aarch64-apple-darwin.tar.gz",
                           target |-> "uv-aarch64-apple-darwin"]
    /\ (host.system = "Linux" /\ host.machine = "x86_64" /\ host.libc = "musl")
       => release[Main] = [filename |-> "uv-x86_64-unknown-linux-musl.tar.gz",
                           target |-> "uv-x86_64-unknown-linux-musl"]
    /\ (host.system = "Linux" /\ host.machine = "x86_64" /\ host.libc = "glibc")
       => release[Main] = [filename |-> "uv-x86_64-unknown-linux-gnu.tar.gz",
                           target |-> "uv-x86_64-unknown-linux-gnu"]
    /\ \A m \in Machines :
          ( \/ {m, host.machine} = {"AMD64", "x86_64"}
            \/ {m, host.machine} = {"arm64", "aarch64"} )
          => GetUvReleaseInfo([host EXCEPT !.machine = m]) = release[Main]
    /\ ( \/ host.system \notin {"Windows", "Linux", "Darwin"}
         \/ host.machine \notin {"AMD64", "x86_64", "arm64", "aarch64"} )
       <=> ( /\ release[Main] = Nothing
             /\ upc[Main] = "done"
             /\ uvRes[Main] = [kind |-> "UvError",
                               msg |-> "Could not find release info for UV"] )

C21_Witness ==
    /\ upc[Main] = "dl_open"
    /\ host.system = "Windows"
    /\ host.machine = "AMD64"
    /\ host.cc = "cl.exe"
    /\ release[Main] = [filename |-> "uv-x86_64-pc-windows-msvc.zip",
                        target |-> "uv-x86_64-pc-windows-msvc"]

\* C22: once download_file has returned the temp file, download_uv ends
\* only through the unlink of that file, after a successful and after a
\* failed extraction alike, and a failed unlink changes nothing of the
\* result; every failure of the download or of the extraction (a missing
\* archive member included) ends download_uv with a BexUvError.
C22_CleanupAndSingleKind ==
    /\ [](upc[Main] = "done" /\ dlRes[Main] # "none"
            => /\ uvRes[Main].kind \in {"Path", "UvError"}
               /\ dlRes[Main] # "Path"
                  => uvRes[Main] = [kind |-> "UvError", msg |-> "Failed to download uv"])
    /\ [][(dlRes[Main] = "Path" /\ upc[Main] # "done" /\ upc'[Main] = "done")
            => /\ upc[Main] = "cleanup"
               /\ uvRes'[Main] = uvRes[Main]
               /\ tmp'[Main] \in {FALSE, tmp[Main]}]_vars

C22_Witness ==
    /\ upc[Main] = "done"
    /\ dlRes[Main] = "Path"
    /\ uvRes[Main] = [kind |-> "UvError", msg |-> "Failed to extract uv from archive"]
    /\ ~tmp[Main]
    /\ ~uvBin.exists

\* C23: when wait_process is left (an exit code is returned or Cancelled
\* is raised: normal exit, read error, cancellation), the output stream of
\* its child has been closed.
C23_StreamReleased ==
    pc = "wp_ret" => kids[step].stdout = "closed"

\* C24: the control path and the outcome of the build are a function of
\* the children's exit codes, whatever the children wrote: the steps
\* spawned are the steps up to the first non-zero code, that step's
\* BexPyVenvError is the error, requirements.in is written exactly when
\* step 1 returned 0, and three zero codes lead on to the hash write (the
\* one other ending is the failed write of requirements.in after step 1).
C24_OutputIrrelevant ==
    LET ran == {k \in Steps : kids[k].state # "none"}
        failed == {k \in ran : kids[k].state = "exited" /\ kids[k].rc # 0}
    IN  (pc \in {"exit", "persist"} /\ spawns >= 1) =>
        /\ ran = 1..spawns
        /\ \A k \in ran : kids[k].state = "exited"
        /\ failed # {}
           => /\ failed = {spawns}
              /\ pc = "exit"
              /\ outcome = "PyVenvError"
              /\ errMsg = StepMsg(spawns)
              /\ reqIn = IF spawns > 1 THEN cfg ELSE 0
        /\ failed = {}
           => \/ spawns = 3 /\ pc = "persist" /\ reqIn = cfg /\ outcome = "none"
              \/ spawns = 1 /\ pc = "exit" /\ outcome = "OtherError" /\ reqIn = 0

C24_Witness ==
    /\ pc = "persist"
    /\ sent = MaxLines
    /\ lines # <<>>
    /\ Len(lines) < sent
    /\ \A k \in Steps : kids[k].state = "exited" /\ kids[k].rc = 0

\* C25: SIGTERM and SIGKILL go only to a child that is running, and that
\* child is the one of the step in progress: a handler left registered by
\* an earlier step does nothing when the token is cancelled later.
C25_HandlerNoOpAfterExit ==
    [][\A k \in Steps :
         /\ (kids'[k].termSent /\ ~kids[k].termSent)
            => (kids[k].state = "alive" /\ k = step)
         /\ (kids'[k].rc \in {TermRc, KillRc} /\ kids[k].rc \notin {TermRc, KillRc})
            => (kids[k].state = "alive" /\ k = step)]_vars

C25_Witness ==
    /\ step = 3
    /\ cancelled[Main]
    /\ cancelAt = "step"
    /\ kids[3].termSent
    /\ \A k \in {1, 2} :
         /\ kids[k].state = "exited"
         /\ kids[k].registered
         /\ ~kids[k].termSent

\* C26: a chunk is written only when the check made just before it saw
\* the token not cancelled; once the check has seen it cancelled the loop
\* is left and nothing more is written, so that at most one chunk, the one
\* asked for before the cancellation, is written after it; report_hook is
\* called once after each written chunk with the count so far, and with the
\* total -1 when the response has no Content-Length header.
C26_ChunkLoop ==
    /\ [](upc[Main] \in {"dl_loop", "dl_chunk", "dl_end"}
            => /\ late[Main] <= 1
               /\ Len(progress[Main]) = dlDone[Main]
               /\ \A i \in 1..dlDone[Main] :
                     /\ progress[Main][i][1] = i
                     /\ progress[Main][i][2] =
                           (IF hdr[Main] = NoHeader THEN -1 ELSE hdr[Main]))
    /\ [][(upc[Main] = "dl_loop" /\ cancelled[Main])
            => (upc'[Main] \in {"dl_loop", "dl_end"} /\ dlDone' = dlDone)]_vars
    /\ [][(dlDone'[Main] > dlDone[Main])
            => (upc[Main] = "dl_chunk" /\ dlDone'[Main] = dlDone[Main] + 1)]_vars
    /\ [][(upc[Main] = "dl_end") => (dlLeft' = dlLeft /\ dlDone'[Main] <= dlDone[Main])]_vars

C26_Witness ==
    /\ upc[Main] = "dl_loop"
    /\ cancelled[Main]
    /\ late[Main] = 1
    /\ dlLeft[Main] > 0
    /\ hdr[Main] = NoHeader
    /\ progress[Main] = <<<<1, -1>>>>

\* C27: requirements.in changes only in the write that follows a first
\* step that exited 0, before the lock step is spawned, and it then holds
\* the dependency text of the descriptor this run loaded; whenever a lock
\* step has been spawned the file holds this run's text, whatever an
\* earlier build left in it; after a failed or cancelled first step the
\* file is as it was.
C27_RequirementsInWritten ==
    /\ [][reqIn' # reqIn
            => /\ pc = "wp_ret"
               /\ step = 1
               /\ wpOut.kind = "code"
               /\ wpOut.rc = 0
               /\ kids[1].state = "exited"
               /\ kids[1].rc = 0
               /\ kids[2].state = "none"
               /\ reqIn' = cfg]_vars
    /\ [](kids[2].state # "none" => reqIn = cfg)

C27_Witness ==
    /\ kids[2].state = "alive"
    /\ reqIn = cfg
    /\ reqTxt \notin {0, cfg}

\* C28: when wait_process returns a code or raises Cancelled, its child has
\* exited (process.poll() has given its status), also when the child had
\* to be terminated or killed, and a returned code is that status.
C28_ReturnsAfterExit ==
    pc = "wp_ret" =>
        /\ kids[step].state = "exited"
        /\ hpc = "none"
        /\ wpOut.kind \in {"code", "cancelled"}
        /\ wpOut.kind = "code" => wpOut.rc = kids[step].rc

C28_Witness ==
    /\ pc = "wp_ret"
    /\ wpOut.kind = "cancelled"
    /\ kids[step].stubborn
    /\ kids[step].state = "exited"
    /\ kids[step].rc = KillRc

\* C29: once the token of a run is cancelled, the run spawns no child
\* process and opens no network request.
C29_NoNewWorkAfterCancel ==
    [][cancelled[Main]
         => (spawns' <= spawns /\ netCalls'[Main] <= netCalls[Main])]_vars

\* C30: when download_uv has failed in the extraction or in the chmod, no
\* file is left at uv_bin; and a download_uv call that finds uv_bin and
\* returns it returns a completely written, executable file.
C30_NoPoisonedCache ==
    /\ (upc[Main] = "done" /\ dlRes[Main] = "Path" /\ uvRes[Main].kind = "UvError")
       => ~uvBin.exists
    /\ (upc[Main] = "done" /\ dlRes[Main] = "none" /\ uvRes[Main].kind = "Path")
       => Runnable(uvBin)

\* C31: after download_file has failed on the HTTP stream (while
\* connecting or during the transfer), the temp file it created does not
\* exist.
C31_FailedDownloadLeavesNoTemp ==
    (upc[Main] = "done" /\ dlRes[Main] = "HttpError") => ~tmp[Main]

\* C32 (as stated, each case deciding on its own): a hook function is
\* called only for a hook whose condition is absent or true, whose token
\* was not cancelled and whose id is registered; a false condition gives
\* the skip with success, a cancelled token gives the cancellation error,
\* an unknown id gives an error.
C32_EachCaseDecides ==
    \A i \in 1..Len(processed) :
        LET r == processed[i]
            passes == r.if_ = NoIf \/ r.if_ \in {"true", "1"}
        IN  /\ r.called => (passes /\ ~r.entry /\ r.id \in hooks)
            /\ (r.if_ \in {"false", "0"} /\ r.res # "EvalError")
               => (r.res = "Skipped" /\ ~r.called)
            /\ (r.entry /\ r.res # "EvalError")
               => (r.res = "Cancelled" /\ ~r.called)
            /\ (r.id \notin hooks /\ r.res # "EvalError")
               => (r.res \in HookErrors /\ ~r.called)

\* C32 (amended): the three tests are made in the order condition, token,
\* registration, and the first that fails decides: a condition that is
\* false skips the hook with success whatever the token and the id are; a
\* token found cancelled after a condition that is absent or true gives
\* the cancellation error whatever the id is; an unknown id gives the
\* "does not exists" error only after both; the hook function is called
\* exactly when all three pass, and in no other case.
C32_HookGuardsInOrder ==
    \A i \in 1..Len(processed) :
        LET r == processed[i]
            passes == r.if_ = NoIf \/ r.if_ \in {"true", "1"}
        IN  /\ r.called <=> r.res \in {"Ok", "HookError"}
            /\ r.called => (passes /\ ~r.entry /\ r.id \in hooks)
            /\ (r.if_ \in {"false", "0"} /\ r.res # "EvalError")
               => (r.res = "Skipped" /\ ~r.called)
            /\ r.res = "Skipped" => r.if_ \in {"false", "0"}
            /\ (passes /\ r.entry /\ r.res # "EvalError")
               => (r.res = "Cancelled" /\ ~r.called)
            /\ r.res = "Cancelled" => (passes /\ ctxCancelled)
            /\ r.res = "NotExists" => (passes /\ ~r.entry /\ r.id \notin hooks)
            /\ (passes /\ r.id \notin hooks /\ r.res \notin {"EvalError", "Cancelled"})
               => r.res = "NotExists"

C32_Witness ==
    /\ Len(processed) = 2
    /\ processed[1].if_ = "false"
    /\ processed[1].entry
    /\ processed[1].res = "Skipped"
    /\ processed[2].if_ = NoIf
    /\ processed[2].id \notin hooks
    /\ processed[2].res = "Cancelled"
    /\ ~processed[2].called

====
